---------------------------- MODULE Spec2Model ----------------------------
(***************************************************************************)
(* A model of the registry viewer's gateway (app/api/proxy/[...path]/      *)
(* route.ts), of its registry client (lib/apiClient.ts: fetchManifests,    *)
(* deleteTag, deleteTags), of its views and their queries, and of the      *)
(* viewer's state (reducers/viewerReducer.ts).                             *)
(*                                                                         *)
(* Strings the code inspects character by character (the request path,     *)
(* header names) are sequences of one-character strings.                   *)
(***************************************************************************)
EXTENDS Integers, Sequences, FiniteSets, TLC

VARIABLES
    \* ---- gateway (route.ts) ----
    gwIn,       \* the inbound NextRequest: method, pathname, headers, body
    gwPc,       \* "idle" | "fetching" | "responded"
    gwOut,      \* the calls of fetch(url, {method, headers, body}) made so far
    gwRes,      \* the NextResponse the handler returned
    gwUp,       \* what the upstream did with each call of fetch, in order
    retryCount, \* performFetch: its local retryCount
    gwWaits,    \* the delay before each repeated call of fetch, in ms
    \* ---- registry client (apiClient.ts) ----
    call,       \* the invocation made by the view layer
    pc,         \* position of the invocation
    ti,         \* deleteTags: index of the tag of the for-of loop
    fm,         \* fetchManifests: its arguments and the index of the candidate
    manifests,  \* the value fetchManifests returned
    inflight,   \* requests issued and not yet settled
    awaiting,   \* id of the request the invocation is suspended on (0: none)
    log,        \* requests, responses and console calls, in order
    ret,        \* "pending" | "returned" | "thrown": how the invocation ended
    double,     \* the registry double's answer per Accept type (or NoDouble)
    registry,   \* the registry with a state: its tags, its manifests
    fetched,    \* the value fetchTags returned to the view
    \* ---- gateway requests in flight together ----
    conc,       \* per request: the function that serves it and its locals
    \* ---- viewer (DockerRepositoryViewer, viewerReducer.ts) ----
    viewer,     \* the ViewerState that useReducer holds
    dispatched, \* the action dispatched last and the state it was applied to
    view        \* the query of the view that is mounted and what it renders

gwVars == <<gwIn, gwPc, gwOut, gwRes, gwUp, retryCount, gwWaits>>
clVars == <<call, pc, ti, fm, manifests, inflight, awaiting, log, ret, double,
           registry, fetched>>
appVars == <<conc, viewer, dispatched, view>>
vars == <<gwIn, gwPc, gwOut, gwRes, gwUp, retryCount, gwWaits,
          call, pc, ti, fm, manifests, inflight, awaiting, log, ret, double,
          registry, fetched, conc, viewer, dispatched, view>>

Null == "null"
Undefined == "undefined"

(***************************************************************************)
(* Bounds of the model.                                                    *)
(***************************************************************************)
\* longest remainder of an inbound path after the local prefix
MaxRest == 3
\* most headers on an inbound request
MaxHeaders == 2
\* most tags handed to deleteTags
MaxTags == 2

(***************************************************************************)
(* Sequences over a set, up to a length.                                   *)
(***************************************************************************)
SeqsUpTo(S, n) == UNION {[1..m -> S] : m \in 0..n}

(***************************************************************************)
(*                          GATEWAY: route.ts                              *)
(***************************************************************************)

\* process.env.NEXT_PUBLIC_REGISTRY_URL || "http://localhost:5000", one token
REGISTRY_URL == "<registry-base>"

\* the text the regular expression /^\/api\/proxy/ matches
ProxyPrefix == <<"/", "a", "p", "i", "/", "p", "r", "o", "x", "y">>

\* the literal "/v2" of the template string
V2 == <<"/", "v", "2">>

\* String.prototype.replace(/^\/api\/proxy/, ""): the match is anchored at
\* the start and, without the g flag, replaced once; no match, no change.
StripProxyPrefix(pathname) ==
    IF /\ Len(pathname) >= Len(ProxyPrefix)
       /\ SubSeq(pathname, 1, Len(ProxyPrefix)) = ProxyPrefix
    THEN SubSeq(pathname, Len(ProxyPrefix) + 1, Len(pathname))
    ELSE pathname

\* ---- the Headers class ----

\* byte-lowercasing of one character of a header name
LowerChar(c) ==
    CASE c = "H" -> "h"
      [] c = "O" -> "o"
      [] c = "S" -> "s"
      [] c = "T" -> "t"
      [] c = "A" -> "a"
      [] c = "U" -> "u"
      [] c = "R" -> "r"
      [] c = "I" -> "i"
      [] c = "Z" -> "z"
      [] c = "N" -> "n"
      [] c = "X" -> "x"
      [] OTHER -> c

Lower(name) == [i \in DOMAIN name |-> LowerChar(name[i])]

\* new Headers(init): a header list of (name, value) pairs; names are kept
\* lowercased.
NewHeaders(init) == {[name |-> Lower(h.name), value |-> h.value] : h \in init}

\* mutant: delete() that compares the name as written, case-sensitively
HeadersDeleteExact(headers, name) == {h \in headers : h.name # name}

\* Headers.prototype.delete(name): removes every header whose name matches
\* `name` case-insensitively.
HeadersDelete(headers, name) == {h \in headers : h.name # Lower(name)}

\* the header names the code writes
HostName == <<"H", "o", "s", "t">>
AuthorizationName ==
    <<"A", "u", "t", "h", "o", "r", "i", "z", "a", "t", "i", "o", "n">>

\* route.ts sanitizeHeaders
sanitizeHeaders(headers) ==
    LET sanitizedHeaders == NewHeaders(headers)
        noHost == HeadersDelete(sanitizedHeaders, HostName)
    IN  HeadersDelete(noHost, AuthorizationName)

\* mutant: the default "/" of an empty remainder is forgotten
buildRegistryUrlNoDefault(req) ==
    LET registryPath == StripProxyPrefix(req.pathname)
    IN  [url |-> <<REGISTRY_URL>> \o V2 \o registryPath,
         headers |-> sanitizeHeaders(NewHeaders(req.headers))]

\* route.ts buildRegistryUrl
buildRegistryUrl(req) ==
    LET stripped == StripProxyPrefix(req.pathname)
        registryPath == IF stripped = <<>> THEN <<"/">> ELSE stripped
    IN  [url |-> <<REGISTRY_URL>> \o V2 \o registryPath,
         headers |-> sanitizeHeaders(NewHeaders(req.headers))]

\* ---- inbound requests ----

RestChars == {"/", "a"}

\* pathnames buildRegistryUrl is given: the local prefix and a remainder,
\* which may be empty (the function provides for it)
InboundPaths == {ProxyPrefix \o rest : rest \in SeqsUpTo(RestChars, MaxRest)}

\* header names as clients write them
InboundHeaderNames ==
    { <<"H", "o", "s", "t">>, <<"h", "o", "s", "t">>, <<"H", "O", "S", "T">>,
      <<"A", "u", "t", "h", "o", "r", "i", "z", "a", "t", "i", "o", "n">>,
      <<"A", "U", "T", "H", "O", "R", "I", "Z", "A", "T", "I", "O", "N">>,
      <<"X", "a">> }

InboundHeaderSets ==
    {hs \in SUBSET {[name |-> n, value |-> "v"] : n \in InboundHeaderNames} :
        Cardinality(hs) <= MaxHeaders}

Methods == {"GET", "POST", "PUT", "DELETE"}

InboundBodies == {"", "payload"}

\* ---- upstream responses seen by the gateway ----

GwStatuses == {200, 304, 404, 500}

GwUpstreamOutcomes ==
    {[net |-> "error", status |-> 0, statusText |-> "", headers |-> {},
      body |-> Null]}
    \cup
    {[net |-> "ok", status |-> s, statusText |-> t, headers |-> h,
      body |-> "upstream-body"] :
        s \in GwStatuses, t \in {"", "reason"},
        h \in {{}, {"docker-content-digest"}}}

\* Response.ok
ResponseOk(response) == response.status >= 200 /\ response.status <= 299

\* the statuses of a response that has no body (Fetch standard, "null body
\* status"); a Response of such a status cannot be constructed with a body
NullBodyStatuses == {101, 103, 204, 205, 304}

\* the TypeError that the Response constructor throws, in the place of the
\* response that was not constructed
ThrownTypeError ==
    [status |-> 0, headers |-> {}, error |-> "TypeError", body |-> Null]

\* the headers of a response made by Response.json: the content type of
\* the JSON body and nothing else
JsonHeaders == {"content-type"}

\* NextResponse.json({ error }, { status }): Response.json with a body, which
\* throws for a null body status
NextResponseJson(error, status) ==
    IF status \in NullBodyStatuses
    THEN ThrownTypeError
    ELSE [status |-> status, headers |-> JsonHeaders, error |-> error,
          body |-> Null]

\* mutant: the error response is given the headers of the upstream response
handleFetchResponseKeepHeaders(response) ==
    IF ~ResponseOk(response)
    THEN [NextResponseJson(IF response.statusText # ""
                           THEN response.statusText
                           ELSE "Failed to fetch from registry",
                           response.status)
            EXCEPT !.headers = response.headers]
    ELSE [status |-> response.status,
          headers |-> response.headers,
          error |-> Null,
          body |-> response.body]

\* route.ts handleFetchResponse
handleFetchResponse(response) ==
    IF ~ResponseOk(response)
    THEN NextResponseJson(IF response.statusText # ""
                          THEN response.statusText
                          ELSE "Failed to fetch from registry",
                          response.status)
    ELSE [status |-> response.status,
          headers |-> response.headers,
          error |-> Null,
          body |-> response.body]

\* route.ts handleErrorResponse
handleErrorResponse == NextResponseJson("Internal server error", 500)

\* route.ts simpleFetch: what the try returns for the outcome of fetch, or
\* the catch when fetch or handleFetchResponse threw
simpleFetchResult(o) ==
    IF o.net = "error"
    THEN handleErrorResponse
    ELSE LET response == handleFetchResponse(o)
         IN  IF response = ThrownTypeError
             THEN handleErrorResponse
             ELSE response

\* route.ts simpleFetch, up to its await of fetch(url, {method, headers, body})
simpleFetch(method, url, headers, body) ==
    /\ gwOut' = Append(gwOut, [method |-> method, url |-> url,
                               headers |-> headers, body |-> body])
    /\ gwPc' = "fetching"
    /\ UNCHANGED <<gwIn, gwRes, gwUp, retryCount, gwWaits>>

\* performFetch: `const maxRetries = 3`
maxRetries == 3

\* performFetch: `await wait(1000)`
RetryWaitMs == 1000

\* mutant: simpleFetch calls fetch again after a transport failure, as
\* performFetch does
simpleFetchSettleRetry ==
    /\ gwPc = "fetching"
    /\ \E o \in GwUpstreamOutcomes :
          /\ gwUp' = Append(gwUp, o)
          /\ IF o.net = "error" /\ Len(gwOut) <= maxRetries
             THEN /\ gwOut' = Append(gwOut, gwOut[1])
                  /\ UNCHANGED <<gwRes, gwPc>>
             ELSE /\ gwRes' = simpleFetchResult(o)
                  /\ gwPc' = "responded"
                  /\ UNCHANGED gwOut
    /\ UNCHANGED <<gwIn, retryCount, gwWaits>>
    /\ UNCHANGED <<clVars, appVars>>

\* mutant: simpleFetch waits and calls fetch again after a 304, as
\* performFetch does
simpleFetchSettleRetry304 ==
    /\ gwPc = "fetching"
    /\ \E o \in GwUpstreamOutcomes :
          /\ gwUp' = Append(gwUp, o)
          /\ IF o.net = "ok" /\ o.status = 304 /\ Len(gwOut) <= maxRetries
             THEN /\ gwOut' = Append(gwOut, gwOut[1])
                  /\ gwWaits' = Append(gwWaits, RetryWaitMs)
                  /\ UNCHANGED <<gwRes, gwPc>>
             ELSE /\ gwRes' = simpleFetchResult(o)
                  /\ gwPc' = "responded"
                  /\ UNCHANGED <<gwOut, gwWaits>>
    /\ UNCHANGED <<gwIn, retryCount>>
    /\ UNCHANGED <<clVars, appVars>>

\* route.ts simpleFetch, from the settling of fetch to its return
simpleFetchSettle ==
    /\ gwPc = "fetching"
    /\ \E o \in GwUpstreamOutcomes :
          /\ gwUp' = Append(gwUp, o)
          /\ gwRes' = simpleFetchResult(o)
    /\ gwPc' = "responded"
    /\ UNCHANGED <<gwIn, gwOut, retryCount, gwWaits>>
    /\ UNCHANGED <<clVars, appVars>>

\* route.ts GET
GET ==
    /\ gwPc = "idle" /\ gwIn.method = "GET"
    /\ LET b == buildRegistryUrl(gwIn)
       IN  simpleFetch("GET", b.url, b.headers, Undefined)
    /\ UNCHANGED <<clVars, appVars>>

\* route.ts POST: the body is read and then not handed to simpleFetch
POST ==
    /\ gwPc = "idle" /\ gwIn.method = "POST"
    /\ LET b == buildRegistryUrl(gwIn)
       IN  simpleFetch("POST", b.url, b.headers, Undefined)
    /\ UNCHANGED <<clVars, appVars>>

\* route.ts PUT
PUT ==
    /\ gwPc = "idle" /\ gwIn.method = "PUT"
    /\ LET b == buildRegistryUrl(gwIn)
           body == gwIn.body
       IN  simpleFetch("PUT", b.url, b.headers, body)
    /\ UNCHANGED <<clVars, appVars>>

\* route.ts DELETE
DELETE ==
    /\ gwPc = "idle" /\ gwIn.method = "DELETE"
    /\ LET b == buildRegistryUrl(gwIn)
       IN  simpleFetch("DELETE", b.url, b.headers, Undefined)
    /\ UNCHANGED <<clVars, appVars>>

\* ---- performFetch ----

\* mutant: a 304 is repeated at once, without the wait
PerformFetchDecideNoWait(o, rc) ==
    IF o.net = "error"
    THEN IF rc >= maxRetries THEN "error" ELSE "retry"
    ELSE IF o.status = 304
    THEN IF rc + 1 > maxRetries THEN "cache miss" ELSE "retry"
    ELSE "respond"

\* mutant: the 304 that exhausts the retries is handed on
PerformFetchDecideForward304(o, rc) ==
    IF o.net = "error"
    THEN IF rc >= maxRetries THEN "error" ELSE "retry"
    ELSE IF o.status = 304
    THEN IF rc + 1 > maxRetries THEN "respond" ELSE "wait"
    ELSE "respond"

\* mutant: the catch gives up only when retryCount has passed maxRetries
PerformFetchDecideCatchLate(o, rc) ==
    IF o.net = "error"
    THEN IF rc > maxRetries THEN "error" ELSE "retry"
    ELSE IF o.status = 304
    THEN IF rc + 1 > maxRetries THEN "cache miss" ELSE "wait"
    ELSE "respond"

\* mutant: a 304 is allowed one retry more than a transport failure
PerformFetchDecideLate304(o, rc) ==
    IF o.net = "error"
    THEN IF rc >= maxRetries THEN "error" ELSE "retry"
    ELSE IF o.status = 304
    THEN IF rc + 1 > maxRetries + 1 THEN "cache miss" ELSE "wait"
    ELSE "respond"

\* performFetch, the body of its loop from the settling of fetch: what is
\* done with outcome o when retryCount is rc
PerformFetchDecide(o, rc) ==
    IF o.net = "error"
    THEN IF rc >= maxRetries THEN "error" ELSE "retry"
    ELSE IF o.status = 304
    THEN IF rc + 1 > maxRetries THEN "cache miss" ELSE "wait"
    ELSE "respond"

\* performFetch, the try and the catch of one pass of the loop:
\* handleFetchResponse is called inside the try, and when it throws the
\* catch decides as for a failed fetch
PerformFetchTry(o, rc) ==
    LET decided == PerformFetchDecide(o, rc)
    IN  IF decided = "respond" /\ handleFetchResponse(o) = ThrownTypeError
        THEN IF rc >= maxRetries THEN "error" ELSE "retry"
        ELSE decided

\* performFetch: the response a pass of the loop returns
PerformFetchReturn(decision, o) ==
    CASE decision = "error" -> handleErrorResponse
      [] decision = "cache miss" ->
           NextResponseJson("Cache miss after max retries.", 404)
      [] decision = "respond" -> handleFetchResponse(o)

\* performFetch, `while (retryCount <= maxRetries)`: fetch is called, or the
\* loop is left for the fallback
performFetch ==
    /\ gwPc = "pf_loop"
    /\ IF retryCount <= maxRetries
       THEN /\ LET b == buildRegistryUrl(gwIn)
               IN  gwOut' = Append(gwOut, [method |-> gwIn.method,
                                           url |-> b.url,
                                           headers |-> b.headers,
                                           body |-> gwIn.body])
            /\ gwPc' = "pf_fetching"
            /\ UNCHANGED gwRes
       ELSE /\ gwRes' = NextResponseJson("Unexpected error during fetch.",
                                         500)
            /\ gwPc' = "responded"
            /\ UNCHANGED gwOut
    /\ UNCHANGED <<gwIn, gwUp, retryCount, gwWaits>>
    /\ UNCHANGED <<clVars, appVars>>

\* performFetch, from the settling of fetch: the 304 branch, the return of
\* the response, the catch
performFetchSettle ==
    /\ gwPc = "pf_fetching"
    /\ \E o \in GwUpstreamOutcomes :
          LET decision == PerformFetchTry(o, retryCount)
          IN  /\ gwUp' = Append(gwUp, o)
              /\ retryCount' = IF decision \in {"retry", "wait", "cache miss"}
                               THEN retryCount + 1
                               ELSE retryCount
              /\ gwWaits' = IF decision = "retry"
                            THEN Append(gwWaits, 0)
                            ELSE gwWaits
              /\ gwRes' = IF decision \in {"retry", "wait"}
                           THEN gwRes
                           ELSE PerformFetchReturn(decision, o)
              /\ gwPc' = CASE decision = "retry" -> "pf_loop"
                           [] decision = "wait" -> "pf_waiting"
                           [] OTHER -> "responded"
    /\ UNCHANGED <<gwIn, gwOut>>
    /\ UNCHANGED <<clVars, appVars>>

\* performFetch, `await wait(1000); continue`: the timer has fired
performFetchWake ==
    /\ gwPc = "pf_waiting"
    /\ gwWaits' = Append(gwWaits, RetryWaitMs)
    /\ gwPc' = "pf_loop"
    /\ UNCHANGED <<gwIn, gwOut, gwRes, gwUp, retryCount>>
    /\ UNCHANGED <<clVars, appVars>>

\* no response yet
NoNextResponse == [status |-> 0, headers |-> {}, error |-> Null, body |-> Null]

GatewayInit ==
    /\ gwIn \in [method : Methods, pathname : InboundPaths,
                 headers : InboundHeaderSets, body : InboundBodies]
    /\ gwPc = "idle"
    /\ gwOut = <<>>
    /\ gwRes = NoNextResponse
    /\ gwUp = <<>>
    /\ retryCount = 0
    /\ gwWaits = <<>>

(***************************************************************************)
(*                     REGISTRY CLIENT: apiClient.ts                       *)
(***************************************************************************)

DockerManifestV2 == "application/vnd.docker.distribution.manifest.v2+json"
OciImageIndex == "application/vnd.oci.image.index.v1+json"
OciImageManifest == "application/vnd.oci.image.manifest.v1+json"

\* mutant: the candidates in the other order
mediaTypesIndexFirst == <<OciImageIndex, DockerManifestV2>>

\* fetchManifests: const mediaTypes = [...]
mediaTypes == <<DockerManifestV2, OciImageIndex>>

\* `if (mediaType)`: undefined, null and "" are falsy
Truthy(v) == v \notin {Undefined, Null, ""}

\* ---- the registry behind the gateway, as the client sees it ----

Digests == {"sha256:d1", "sha256:d2"}
Tags == {"A", "B"}
AcceptTypes == {DockerManifestV2, OciImageIndex, OciImageManifest}

\* What a GET of a manifest can come to: a transport failure (no response),
\* or a response with a status and, possibly, a docker-content-digest header.
GetAnswers ==
    {[net |-> "error", status |-> 0, digest |-> Undefined]}
    \cup {[net |-> "ok", status |-> s, digest |-> Undefined] :
            s \in {204, 404, 500}}
    \cup {[net |-> "ok", status |-> 200, digest |-> d] :
            d \in Digests \cup {Undefined}}

\* What a DELETE of a manifest can come to.
DeleteAnswers ==
    {[net |-> "error", status |-> 0, digest |-> Undefined],
     [net |-> "ok", status |-> 202, digest |-> Undefined],
     [net |-> "ok", status |-> 404, digest |-> Undefined]}

\* no answer fixed beforehand
AnyAnswer == [net |-> "any", status |-> 0, digest |-> Undefined]

NoDouble == [t \in AcceptTypes |-> AnyAnswer]

\* The answers of a registry that is not a double.  Of the statuses only
\* 200 and 404 are kept: in the probe loop, the one place such a registry is
\* asked, every other status is rejected by validateStatus and so takes the
\* path of the transport failure.
AnyGetAnswers == {a \in GetAnswers : a.status \in {0, 200, 404}}

\* ---- the registry with a state ----

\* how many times another client of the registry acts during an invocation
MaxExternal == 1

\* the path of the tag list of the repository
TagsList == "tags/list"

\* the kind of the manifest a digest names
Kind(d) == IF d = "sha256:d1" THEN DockerManifestV2 ELSE OciImageIndex

\* no registry with a state: the answers are the double's, or any
RegistryOff ==
    [on |-> FALSE, tag |-> [t \in Tags |-> Undefined], manifests |-> {},
     initial |-> [t \in Tags |-> Undefined], ext |-> 0]

\* the tags of the repository
RegistryTags(reg) == {t \in Tags : reg.tag[t] # Undefined}

\* mutant: the manifest goes, the tags that point to it stay
RegistryDeleteManifestOnly(reg, d) ==
    [reg EXCEPT !.manifests = @ \ {d}]

\* DELETE /v2/<repo>/manifests/<digest>: the manifest goes and with it every
\* tag that points to it
RegistryDelete(reg, d) ==
    [reg EXCEPT !.manifests = @ \ {d},
                !.tag = [t \in Tags |-> IF reg.tag[t] = d
                                        THEN Undefined ELSE reg.tag[t]]]

\* the manifest a reference names: a tag names what it points to, a digest
\* names itself
RegistryLookup(reg, ref) ==
    IF ref \in Tags THEN reg.tag[ref]
    ELSE IF ref \in reg.manifests THEN ref
    ELSE Undefined

\* the answer of the registry to request r: a manifest is served under the
\* media type of its kind, deleted by its digest alone
RegistryAnswer(r) ==
    IF r.method = "DELETE"
    THEN [net |-> "ok",
          status |-> IF r.ref \in registry.manifests THEN 202 ELSE 404,
          digest |-> Undefined]
    ELSE IF r.ref = TagsList
    THEN [net |-> "ok", status |-> 200, digest |-> Undefined]
    ELSE LET d == RegistryLookup(registry, r.ref)
         IN  IF d # Undefined /\ Kind(d) = r.accept
             THEN [net |-> "ok", status |-> 200, digest |-> d]
             ELSE [net |-> "ok", status |-> 404, digest |-> Undefined]

\* the registry once it has answered a to request r
RegistryAfter(r, a) ==
    IF registry.on /\ r.method = "DELETE" /\ a.net = "ok" /\ a.status = 202
    THEN RegistryDelete(registry, r.ref)
    ELSE registry

\* The answers request r can get: the answer of the registry with a state
\* when there is one (the request of the tag list may also fail at the
\* transport); else the one the registry double gives to the Accept type
\* when the invocation runs against a double, any otherwise.
Answers(r) ==
    IF registry.on
    THEN {RegistryAnswer(r)}
         \cup IF r.ref = TagsList
              THEN {[net |-> "error", status |-> 0, digest |-> Undefined]}
              ELSE {}
    ELSE IF r.method = "DELETE" THEN DeleteAnswers
    ELSE IF double[r.accept] = AnyAnswer THEN AnyGetAnswers
    ELSE {double[r.accept]}

NoData == [mediaType |-> Null, reference |-> Null]

\* The response as axios hands it over: the body served for a manifest names
\* the representation that was asked for, the body of the tag list the tags.
AxiosResponse(r, a) ==
    [net |-> a.net, status |-> a.status, digest |-> a.digest,
     data |-> IF a.net = "ok" /\ a.status = 200
              THEN IF r.ref = TagsList
                   THEN [tags |-> RegistryTags(registry)]
                   ELSE [mediaType |-> r.accept, reference |-> r.ref]
              ELSE NoData]

\* ---- axios ----

\* axios' default validateStatus
validateStatusDefault(status) == status >= 200 /\ status < 300

\* fetchManifests: validateStatus: (status) => status === 200 || status === 404
validateStatusProbe(status) == status = 200 \/ status = 404

\* whether the promise of apiClient.get / apiClient.delete resolves (it
\* rejects on a transport failure and on a status validateStatus refuses)
Resolves(response, probe) ==
    /\ response.net = "ok"
    /\ IF probe THEN validateStatusProbe(response.status)
                ELSE validateStatusDefault(response.status)

\* ---- the log ----

Event(ev, id, method, ref, accept, response) ==
    [ev |-> ev, id |-> id, tag |-> ti, method |-> method, ref |-> ref,
     accept |-> accept, response |-> response]

NoResponse ==
    [net |-> Null, status |-> 0, digest |-> Undefined, data |-> NoData]

\* console.error(...) / console.log(...): `what` names the message
Console(level, what) == Event(level, 0, Null, what, Null, NoResponse)

\* the settling of request r, as the log records it
Settled(r, response) ==
    Event("response", r.id, r.method, r.ref, r.accept, response)

\* apiClient.get / apiClient.delete: the request goes out
Send(method, ref, accept) ==
    LET id == Len(log) + 1
    IN  /\ inflight' = inflight \cup
              {[id |-> id, method |-> method, ref |-> ref, accept |-> accept]}
        /\ log' = Append(log, Event("request", id, method, ref, accept,
                                    NoResponse))

\* `await apiClient.get(...)`: the request goes out and the caller is
\* suspended on it
Issue(method, ref, accept, waitPc) ==
    /\ Send(method, ref, accept)
    /\ awaiting' = Len(log) + 1
    /\ pc' = waitPc

\* ---- fetchManifests ----

\* `return null`
NoManifests == [is |-> "null", digest |-> Undefined, data |-> NoData]

\* `return { digest, data: response.data }`
ManifestsOf(response) ==
    [is |-> "object", digest |-> response.digest, data |-> response.data]

\* fetchManifests, entry: the branch on mediaType; with a media type the one
\* request goes out, without one the probe loop is entered
FetchManifestsEntry ==
    /\ pc = "fm_entry"
    /\ IF Truthy(fm.mediaType)
       THEN /\ Issue("GET", fm.reference, fm.mediaType, "fm_explicit_wait")
            /\ UNCHANGED fm
       ELSE /\ fm' = [fm EXCEPT !.k = 1]
            /\ pc' = "fm_probe"
            /\ UNCHANGED <<inflight, awaiting, log>>
    /\ UNCHANGED <<call, ti, manifests, ret, double>>
    /\ UNCHANGED <<registry, fetched>>
    /\ UNCHANGED <<gwVars, appVars>>

\* mutant: any 2xx status is taken for a manifest
ExplicitResult2xx(response) ==
    IF Resolves(response, FALSE) THEN ManifestsOf(response) ELSE NoManifests

\* fetchManifests with a media type: the value returned once the request
\* has settled (a rejection and a status other than 200 end in the catch)
ExplicitResult(response) ==
    IF Resolves(response, FALSE) /\ response.status = 200
    THEN ManifestsOf(response)
    ELSE NoManifests

\* fetchManifests with a media type, from the settling of the request
FetchManifestsExplicitSettle ==
    /\ pc = "fm_explicit_wait"
    /\ \E r \in inflight : \E a \in Answers(r) :
          LET response == AxiosResponse(r, a)
              result == ExplicitResult(response)
              settled == Append(log, Settled(r, response))
          IN  /\ r.id = awaiting
              /\ inflight' = inflight \ {r}
              /\ manifests' = result
              /\ log' = IF result = NoManifests
                        THEN Append(settled,
                                    Console("console.log", "fetch failed"))
                        ELSE settled
    /\ awaiting' = 0
    /\ pc' = "fm_return"
    /\ UNCHANGED <<call, ti, fm, ret, double>>
    /\ UNCHANGED <<registry, fetched>>
    /\ UNCHANGED <<gwVars, appVars>>

\* fetchManifests without a media type, head of `for (const mediaType of
\* mediaTypes)`: the next candidate is requested, or the loop is left and
\* null returned
FetchManifestsProbe ==
    /\ pc = "fm_probe"
    /\ IF fm.k <= Len(mediaTypes)
       THEN /\ Issue("GET", fm.reference, mediaTypes[fm.k], "fm_probe_wait")
            /\ UNCHANGED manifests
       ELSE /\ manifests' = NoManifests
            /\ pc' = "fm_return"
            /\ UNCHANGED <<inflight, awaiting, log>>
    /\ UNCHANGED <<call, ti, fm, ret, double>>
    /\ UNCHANGED <<registry, fetched>>
    /\ UNCHANGED <<gwVars, appVars>>

\* mutant: no try/catch around the request of a candidate
ProbeStepNoCatch(response) ==
    IF ~Resolves(response, TRUE) THEN "throw"
    ELSE IF response.status = 200 THEN "return"
    ELSE "next"

\* mutant: the loop goes on after a 200
ProbeStepKeepsProbing(response) ==
    IF ~Resolves(response, TRUE) THEN "caught"
    ELSE "next"

\* mutant: a 404 is logged as a failure
ProbeStepLogs404(response) ==
    IF ~Resolves(response, TRUE) THEN "caught"
    ELSE IF response.status = 200 THEN "return"
    ELSE "caught"

\* mutant: a 404 ends the probe with null
ProbeStepStopOn404(response) ==
    IF ~Resolves(response, TRUE) THEN "caught"
    ELSE IF response.status = 200 THEN "return"
    ELSE "null"

\* fetchManifests without a media type: what the loop body does with the
\* settled request of a candidate
ProbeStep(response) ==
    IF ~Resolves(response, TRUE) THEN "caught"
    ELSE IF response.status = 200 THEN "return"
    ELSE "next"

\* the completion of a call that threw
Thrown == [is |-> "thrown", digest |-> Undefined, data |-> NoData]

\* fetchManifests without a media type, from the settling of a candidate's
\* request: return on 200, go on to the next candidate otherwise
FetchManifestsProbeSettle ==
    /\ pc = "fm_probe_wait"
    /\ \E r \in inflight : \E a \in Answers(r) :
          LET response == AxiosResponse(r, a)
              step == ProbeStep(response)
              settled == Append(log, Settled(r, response))
          IN  /\ r.id = awaiting
              /\ inflight' = inflight \ {r}
              /\ log' = IF step = "caught"
                        THEN Append(settled,
                                    Console("console.error", "fetch failed"))
                        ELSE settled
              /\ IF step \in {"next", "caught"}
                 THEN /\ fm' = [fm EXCEPT !.k = @ + 1]
                      /\ pc' = "fm_probe"
                      /\ UNCHANGED manifests
                 ELSE /\ manifests' = CASE step = "return" -> ManifestsOf(response)
                                        [] step = "throw" -> Thrown
                                        [] OTHER -> NoManifests
                      /\ pc' = "fm_return"
                      /\ UNCHANGED fm
    /\ awaiting' = 0
    /\ UNCHANGED <<call, ti, ret, double>>
    /\ UNCHANGED <<registry, fetched>>
    /\ UNCHANGED <<gwVars, appVars>>

\* fetchManifests called by a view (ListManifests, DisplayManifest): the
\* promise settles
FetchManifestsReturn ==
    /\ pc = "fm_return"
    /\ call.op = "fetchManifests"
    /\ ret' = IF manifests = Thrown THEN "thrown" ELSE "returned"
    /\ pc' = "done"
    /\ UNCHANGED <<call, ti, fm, manifests, inflight, awaiting, log, double>>
    /\ UNCHANGED <<registry, fetched>>
    /\ UNCHANGED <<gwVars, appVars>>

\* ---- deleteTag, deleteTags ----

\* deleteTags, head of `for (const tag of tags)`: deleteTag(repository, tag)
\* is called, which calls fetchManifests(repository, tag); past the last tag
\* deleteTags returns
deleteTags ==
    /\ pc = "dts_loop"
    /\ IF ti <= Len(call.tags)
       THEN /\ fm' = [reference |-> call.tags[ti], mediaType |-> Undefined,
                      k |-> 0]
            /\ pc' = "fm_entry"
            /\ UNCHANGED ret
       ELSE /\ ret' = "returned"
            /\ pc' = "done"
            /\ UNCHANGED fm
    /\ UNCHANGED <<call, ti, manifests, inflight, awaiting, log, double>>
    /\ UNCHANGED <<registry, fetched>>
    /\ UNCHANGED <<gwVars, appVars>>

\* deleteTag: `!manifests || !manifests.digest` is false
HasDigest(m) == m.is = "object" /\ Truthy(m.digest)

\* mutant: the manifest is deleted by the tag's name
DeleteReferenceTag(tag, m) == tag

\* deleteTag: the reference of the DELETE, `manifests.digest`
DeleteReference(tag, m) == m.digest

\* mutant: the DELETE is not awaited
DeleteNotAwaited == FALSE

\* deleteTag: `await apiClient.delete(...)`
DeleteAwaited == TRUE

\* mutant: deleteTag without its try/catch: the error leaves deleteTag and,
\* through the await of deleteTags, the invocation
deleteTagNoCatch(lg) ==
    /\ log' = lg
    /\ ret' = "thrown"
    /\ pc' = "done"
    /\ UNCHANGED ti

\* mutant: the catch of deleteTag tries the tag again
deleteTagCatchRetry(lg) ==
    /\ log' = Append(lg, Console("console.error", "delete failed"))
    /\ pc' = "dts_loop"
    /\ UNCHANGED <<ti, ret>>

\* deleteTag, `catch (error) { console.error(...) }`: the error is logged,
\* deleteTag returns and the loop of deleteTags goes on
deleteTagCatch(lg) ==
    /\ log' = Append(lg, Console("console.error", "delete failed"))
    /\ ti' = ti + 1
    /\ pc' = "dts_loop"
    /\ UNCHANGED ret

\* deleteTag, from the return of fetchManifests: without a digest the throw
\* lands in the catch; with one the DELETE goes out
deleteTag ==
    /\ pc = "fm_return"
    /\ call.op = "deleteTags"
    /\ IF ~HasDigest(manifests)
       THEN /\ deleteTagCatch(log)
            /\ UNCHANGED <<inflight, awaiting>>
       ELSE /\ Send("DELETE", DeleteReference(call.tags[ti], manifests),
                     Null)
            /\ UNCHANGED ret
            /\ IF DeleteAwaited
               THEN /\ awaiting' = Len(log) + 1
                    /\ pc' = "dt_delete_wait"
                    /\ UNCHANGED ti
               ELSE /\ awaiting' = 0
                    /\ pc' = "dts_loop"
                    /\ ti' = ti + 1
    /\ UNCHANGED <<call, fm, manifests, double>>
    /\ UNCHANGED <<registry, fetched>>
    /\ UNCHANGED <<gwVars, appVars>>

\* deleteTag, from the settling of the DELETE: success is logged, a
\* rejection lands in the catch; deleteTag returns either way
deleteTagSettle ==
    /\ pc = "dt_delete_wait"
    /\ \E r \in inflight : \E a \in Answers(r) :
          LET response == AxiosResponse(r, a)
              settled == Append(log, Settled(r, response))
          IN  /\ r.id = awaiting
              /\ inflight' = inflight \ {r}
              /\ IF Resolves(response, FALSE)
                 THEN /\ log' = Append(settled,
                                       Console("console.log", "deleted"))
                      /\ ti' = ti + 1
                      /\ pc' = "dts_loop"
                      /\ UNCHANGED ret
                 ELSE deleteTagCatch(settled)
              /\ registry' = RegistryAfter(r, a)
    /\ awaiting' = 0
    /\ UNCHANGED <<call, fm, manifests, double>>
    /\ UNCHANGED fetched
    /\ UNCHANGED <<gwVars, appVars>>

\* ---- fetchTags ----

\* fetchTags has not been called
NotFetched == [is |-> "none", tags |-> {}]

\* mutant: fetchTags answers from the list it was given before
fetchTagsResultStale(response) ==
    [is |-> "array", tags |-> RegistryTags([tag |-> registry.initial])]

\* fetchTags: `return response.data.tags`, and `return []` from the catch
fetchTagsResult(response) ==
    [is |-> "array",
     tags |-> IF Resolves(response, FALSE) THEN response.data.tags ELSE {}]

\* the view asks for the tags again once deleteTags has returned
\* (handleDeleteTags invalidates the query of fetchTags)
fetchTags ==
    /\ pc = "done"
    /\ call.op = "deleteTags"
    /\ Issue("GET", TagsList, Null, "ft_wait")
    /\ UNCHANGED <<call, ti, fm, manifests, ret, double, registry, fetched>>
    /\ UNCHANGED <<gwVars, appVars>>

\* fetchTags, from the settling of its request
fetchTagsSettle ==
    /\ pc = "ft_wait"
    /\ \E r \in inflight : \E a \in Answers(r) :
          LET response == AxiosResponse(r, a)
              settled == Append(log, Settled(r, response))
          IN  /\ r.id = awaiting
              /\ inflight' = inflight \ {r}
              /\ fetched' = fetchTagsResult(response)
              /\ log' = IF Resolves(response, FALSE)
                        THEN settled
                        ELSE Append(settled, Console("console.error",
                                                     "fetch tags failed"))
    /\ awaiting' = 0
    /\ pc' = "refetched"
    /\ UNCHANGED <<call, ti, fm, manifests, ret, double, registry>>
    /\ UNCHANGED <<gwVars, appVars>>

\* ---- another client of the registry ----

\* what another client did, as the log records it
External(method, ref, digest) ==
    [ev |-> "external", id |-> 0, tag |-> 0, method |-> method, ref |-> ref,
     accept |-> Null, response |-> [NoResponse EXCEPT !.digest = digest]]

\* between the resolution of a tag and the settling of its DELETE another
\* client pushes a manifest under a tag of the repository, or deletes a
\* manifest of it
ExternalActor ==
    /\ registry.on
    /\ registry.ext < MaxExternal
    /\ pc \in {"fm_return", "dt_delete_wait"}
    /\ HasDigest(manifests)
    /\ \/ \E t \in Tags, d \in Digests :
             /\ registry.tag[t] # d
             /\ registry' = [registry EXCEPT !.tag[t] = d,
                                             !.manifests = @ \cup {d},
                                             !.ext = @ + 1]
             /\ log' = Append(log, External("PUT", t, d))
       \/ \E d \in registry.manifests :
             /\ registry' = [RegistryDelete(registry, d) EXCEPT !.ext = @ + 1]
             /\ log' = Append(log, External("DELETE", d, d))
    /\ UNCHANGED <<call, pc, ti, fm, manifests, inflight, awaiting, ret,
                   double, fetched>>
    /\ UNCHANGED <<gwVars, appVars>>

\* ---- the invocations the views make ----

MediaTypeArgs ==
    {Undefined, "", DockerManifestV2, OciImageIndex, OciImageManifest}

FetchCalls ==
    {[op |-> "fetchManifests", reference |-> r, mediaType |-> m,
      tags |-> <<>>] : r \in Tags, m \in MediaTypeArgs}

DeleteCalls ==
    {[op |-> "deleteTags", reference |-> Null, mediaType |-> Undefined,
      tags |-> t] : t \in SeqsUpTo(Tags, MaxTags)}

ClientInit ==
    /\ call \in FetchCalls \cup DeleteCalls
    /\ double \in IF call.op = "fetchManifests"
                  THEN [AcceptTypes -> GetAnswers]
                  ELSE {NoDouble}
    /\ pc = IF call.op = "fetchManifests" THEN "fm_entry" ELSE "dts_loop"
    /\ ti = IF call.op = "fetchManifests" THEN 0 ELSE 1
    /\ fm = [reference |-> call.reference, mediaType |-> call.mediaType,
             k |-> 0]
    /\ manifests = NoManifests
    /\ inflight = {}
    /\ awaiting = 0
    /\ log = <<>>
    /\ ret = "pending"
    /\ registry = RegistryOff
    /\ fetched = NotFetched

\* the registries an invocation can meet: each tag of the repository points
\* to a manifest or does not exist, and the manifests are those pointed to
Registries ==
    {[on |-> TRUE, tag |-> f, manifests |-> {f[t] : t \in Tags} \ {Undefined},
      initial |-> f, ext |-> 0] : f \in [Tags -> Digests \cup {Undefined}]}

\* deleteTags called against a registry with a state
RegistryInit ==
    /\ call \in DeleteCalls
    /\ double = NoDouble
    /\ registry \in Registries
    /\ pc = "dts_loop"
    /\ ti = 1
    /\ fm = [reference |-> Null, mediaType |-> Undefined, k |-> 0]
    /\ manifests = NoManifests
    /\ inflight = {}
    /\ awaiting = 0
    /\ log = <<>>
    /\ ret = "pending"
    /\ fetched = NotFetched

\* the client at rest, for the specification of the gateway
ClientIdle ==
    /\ call = [op |-> Null, reference |-> Null, mediaType |-> Undefined,
               tags |-> <<>>]
    /\ double = NoDouble
    /\ pc = "done"
    /\ ti = 0
    /\ fm = [reference |-> Null, mediaType |-> Undefined, k |-> 0]
    /\ manifests = NoManifests
    /\ inflight = {}
    /\ awaiting = 0
    /\ log = <<>>
    /\ ret = "pending"
    /\ registry = RegistryOff
    /\ fetched = NotFetched

\* the requests performFetch is tried with
PerformFetchRequests ==
    [method : Methods, pathname : {ProxyPrefix \o <<"/", "a">>},
     headers : {{}, {[name |-> <<"X", "a">>, value |-> "v"]}},
     body : InboundBodies]

\* performFetch called with the url and the headers of a request
PerformFetchInit ==
    /\ gwIn \in PerformFetchRequests
    /\ gwPc = "pf_loop"
    /\ gwOut = <<>>
    /\ gwRes = NoNextResponse
    /\ gwUp = <<>>
    /\ retryCount = 0
    /\ gwWaits = <<>>

\* the gateway at rest, for the specification of the client
GatewayIdle ==
    /\ gwIn = [method |-> Null, pathname |-> <<>>, headers |-> {},
               body |-> ""]
    /\ gwPc = "responded"
    /\ gwOut = <<>>
    /\ gwRes = NoNextResponse
    /\ gwUp = <<>>
    /\ retryCount = 0
    /\ gwWaits = <<>>

(***************************************************************************)
(*                   GATEWAY: requests in flight together                  *)
(***************************************************************************)

\* the requests in flight together
Reqs == {"r1", "r2"}

\* the functions that serve a request
FetchFns == {"simpleFetch", "performFetch"}

\* what the upstream does with a call of fetch
ConcOutcomes ==
    {o \in GwUpstreamOutcomes : o.statusText = "" /\ o.headers = {}}

\* a request at the entry of the function that serves it: retryCount is 0
\* (`let retryCount = 0`), nothing was fetched, nothing returned
ConcStart(fn) ==
    [fn |-> fn, pc |-> "loop", attempts |-> 0, up |-> <<>>,
     retryCount |-> 0, responses |-> <<>>]

\* mutant: retryCount is one counter of the module, which every call
\* in flight increments
RetryCountShared(c, r) ==
    LET other == CHOOSE q \in Reqs : q # r
    IN  c[r].retryCount + c[other].retryCount

\* performFetch: its `let retryCount`, a local of the call
RetryCountOf(c, r) == c[r].retryCount

\* simpleFetch calls fetch; performFetch evaluates the condition of its loop
\* and calls fetch, or leaves the loop for the return after it
ConcFetch ==
    /\ \E r \in Reqs :
          /\ conc[r].pc = "loop"
          /\ IF conc[r].fn = "performFetch"
                /\ ~(RetryCountOf(conc, r) <= maxRetries)
             THEN conc' = [conc EXCEPT
                     ![r].responses =
                         Append(@, NextResponseJson(
                                       "Unexpected error during fetch.", 500)),
                     ![r].pc = "responded"]
             ELSE conc' = [conc EXCEPT ![r].attempts = @ + 1,
                                       ![r].pc = "fetching"]
    /\ UNCHANGED <<gwVars, clVars, viewer, dispatched, view>>

\* the fetch of a request settles and the function that serves it goes on
\* to its return, to its wait or to the next pass of its loop
ConcSettle ==
    /\ \E r \in Reqs : \E o \in ConcOutcomes :
          /\ conc[r].pc = "fetching"
          /\ IF conc[r].fn = "simpleFetch"
             THEN conc' = [conc EXCEPT
                     ![r].up = Append(@, o),
                     ![r].responses = Append(@, simpleFetchResult(o)),
                     ![r].pc = "responded"]
             ELSE LET decision == PerformFetchTry(o, RetryCountOf(conc, r))
                  IN  conc' = [conc EXCEPT
                         ![r].up = Append(@, o),
                         ![r].retryCount =
                             IF decision \in {"retry", "wait", "cache miss"}
                             THEN @ + 1 ELSE @,
                         ![r].responses =
                             IF decision \in {"retry", "wait"}
                             THEN @
                             ELSE Append(@, PerformFetchReturn(decision, o)),
                         ![r].pc =
                             CASE decision = "retry" -> "loop"
                               [] decision = "wait" -> "waiting"
                               [] OTHER -> "responded"]
    /\ UNCHANGED <<gwVars, clVars, viewer, dispatched, view>>

\* performFetch, `await wait(1000); continue`: the timer of a request fires
ConcWake ==
    /\ \E r \in Reqs :
          /\ conc[r].pc = "waiting"
          /\ conc' = [conc EXCEPT ![r].pc = "loop"]
    /\ UNCHANGED <<gwVars, clVars, viewer, dispatched, view>>

\* two requests enter the gateway together
ConcInit == conc \in [Reqs -> {ConcStart(fn) : fn \in FetchFns}]

\* no requests in flight together
ConcIdle ==
    conc = [r \in Reqs |-> [ConcStart(Null) EXCEPT !.pc = "responded"]]

(***************************************************************************)
(*             VIEWER: DockerRepositoryViewer, viewerReducer.ts            *)
(***************************************************************************)

\* initialState.ts
initialState ==
    [selectedRepo |-> Null, selectedTag |-> Null, selectedManifest |-> Null,
     selectedBlob |-> Null]

\* the repositories of the catalog
Repositories == {"repo1", "repo2"}

\* the blobs of the manifests, by digest
BlobDigests == {"sha256:b1", "sha256:b2"}

\* ViewerAction, and an action of a type the reducer does not know
ViewerActions ==
    [type : {"SELECT_REPOSITORY"}, payload : Repositories]
    \cup [type : {"SELECT_TAG"}, payload : Tags]
    \cup [type : {"SELECT_MANIFEST"}, payload : Digests]
    \cup [type : {"SELECT_BLOB"}, payload : BlobDigests]
    \cup [type : {"RESET_REPOSITORY", "RESET_TAG", "RESET_MANIFEST",
                  "RESET_BLOB", "UNKNOWN"},
          payload : {Undefined}]

\* mutant: RESET_TAG leaves the blob selected
viewerReducerResetTagKeepsBlob(state, action) ==
    CASE action.type = "SELECT_REPOSITORY" ->
           [state EXCEPT !.selectedRepo = action.payload,
                         !.selectedTag = Null,
                         !.selectedManifest = Null,
                         !.selectedBlob = Null]
      [] action.type = "SELECT_TAG" ->
           [state EXCEPT !.selectedTag = action.payload,
                         !.selectedManifest = Null,
                         !.selectedBlob = Null]
      [] action.type = "SELECT_MANIFEST" ->
           [state EXCEPT !.selectedManifest = action.payload,
                         !.selectedBlob = Null]
      [] action.type = "SELECT_BLOB" ->
           [state EXCEPT !.selectedBlob = action.payload]
      [] action.type = "RESET_REPOSITORY" -> initialState
      [] action.type = "RESET_TAG" ->
           [state EXCEPT !.selectedTag = Null,
                         !.selectedManifest = Null]
      [] action.type = "RESET_MANIFEST" ->
           [state EXCEPT !.selectedManifest = Null,
                         !.selectedBlob = Null]
      [] action.type = "RESET_BLOB" ->
           [state EXCEPT !.selectedBlob = Null]
      [] OTHER -> state

\* mutant: SELECT_MANIFEST leaves the blob selected
viewerReducerSelectManifestKeepsBlob(state, action) ==
    CASE action.type = "SELECT_REPOSITORY" ->
           [state EXCEPT !.selectedRepo = action.payload,
                         !.selectedTag = Null,
                         !.selectedManifest = Null,
                         !.selectedBlob = Null]
      [] action.type = "SELECT_TAG" ->
           [state EXCEPT !.selectedTag = action.payload,
                         !.selectedManifest = Null,
                         !.selectedBlob = Null]
      [] action.type = "SELECT_MANIFEST" ->
           [state EXCEPT !.selectedManifest = action.payload]
      [] action.type = "SELECT_BLOB" ->
           [state EXCEPT !.selectedBlob = action.payload]
      [] action.type = "RESET_REPOSITORY" -> initialState
      [] action.type = "RESET_TAG" ->
           [state EXCEPT !.selectedTag = Null,
                         !.selectedManifest = Null,
                         !.selectedBlob = Null]
      [] action.type = "RESET_MANIFEST" ->
           [state EXCEPT !.selectedManifest = Null,
                         !.selectedBlob = Null]
      [] action.type = "RESET_BLOB" ->
           [state EXCEPT !.selectedBlob = Null]
      [] OTHER -> state

\* viewerReducer.ts viewerReducer
viewerReducer(state, action) ==
    CASE action.type = "SELECT_REPOSITORY" ->
           [state EXCEPT !.selectedRepo = action.payload,
                         !.selectedTag = Null,
                         !.selectedManifest = Null,
                         !.selectedBlob = Null]
      [] action.type = "SELECT_TAG" ->
           [state EXCEPT !.selectedTag = action.payload,
                         !.selectedManifest = Null,
                         !.selectedBlob = Null]
      [] action.type = "SELECT_MANIFEST" ->
           [state EXCEPT !.selectedManifest = action.payload,
                         !.selectedBlob = Null]
      [] action.type = "SELECT_BLOB" ->
           [state EXCEPT !.selectedBlob = action.payload]
      [] action.type = "RESET_REPOSITORY" -> initialState
      [] action.type = "RESET_TAG" ->
           [state EXCEPT !.selectedTag = Null,
                         !.selectedManifest = Null,
                         !.selectedBlob = Null]
      [] action.type = "RESET_MANIFEST" ->
           [state EXCEPT !.selectedManifest = Null,
                         !.selectedBlob = Null]
      [] action.type = "RESET_BLOB" ->
           [state EXCEPT !.selectedBlob = Null]
      [] OTHER -> state

\* DockerRepositoryViewer: the view it renders for the state
MountedView(state) ==
    IF ~Truthy(state.selectedRepo) THEN "ListRepositories"
    ELSE IF ~Truthy(state.selectedTag) THEN "ListTags"
    ELSE IF ~Truthy(state.selectedManifest)
            /\ ~Truthy(state.selectedBlob) THEN "ListManifests"
    ELSE IF Truthy(state.selectedBlob) THEN "DisplayBlob"
    ELSE "DisplayManifest"

\* useReducer's dispatch: the reducer is applied to the state
dispatch(action) ==
    /\ viewer' = viewerReducer(viewer, action)
    /\ dispatched' = [action |-> action, before |-> viewer]
    /\ UNCHANGED <<gwVars, clVars, conc, view>>

\* DockerRepositoryViewer handleRepositoryClick, called by ListRepositories
handleRepositoryClick ==
    /\ MountedView(viewer) = "ListRepositories"
    /\ \E repository \in Repositories :
          dispatch([type |-> "SELECT_REPOSITORY", payload |-> repository])

\* DockerRepositoryViewer handleTagClick, called by ListTags
handleTagClick ==
    /\ MountedView(viewer) = "ListTags"
    /\ \E tag \in Tags :
          dispatch([type |-> "SELECT_TAG", payload |-> tag])

\* DockerRepositoryViewer handleManifestClick, called by ListManifests
handleManifestClick ==
    /\ MountedView(viewer) = "ListManifests"
    /\ \E manifest \in Digests :
          dispatch([type |-> "SELECT_MANIFEST", payload |-> manifest])

\* DockerRepositoryViewer handleBlobClick, called by ListManifests and by
\* DisplayManifest
handleBlobClick ==
    /\ MountedView(viewer) \in {"ListManifests", "DisplayManifest"}
    /\ \E blob \in BlobDigests :
          dispatch([type |-> "SELECT_BLOB", payload |-> blob])

\* DockerRepositoryViewer, the items of the breadcrumb that are rendered
Breadcrumb ==
    \E type \in {"RESET_REPOSITORY"}
               \cup (IF Truthy(viewer.selectedRepo)
                     THEN {"RESET_TAG"} ELSE {})
               \cup (IF Truthy(viewer.selectedTag)
                     THEN {"RESET_MANIFEST"} ELSE {})
               \cup (IF Truthy(viewer.selectedManifest)
                     THEN {"RESET_BLOB"} ELSE {}) :
        dispatch([type |-> type, payload |-> Undefined])

\* the reducer applied to any action
dispatchAny == \E action \in ViewerActions : dispatch(action)

\* no action was dispatched
NoDispatch ==
    [action |-> [type |-> Null, payload |-> Undefined],
     before |-> initialState]

\* useReducer(viewerReducer, initialState)
ViewerInit ==
    /\ viewer = initialState
    /\ dispatched = NoDispatch

\* every ViewerState
ViewerStates ==
    [selectedRepo : Repositories \cup {Null},
     selectedTag : Tags \cup {Null},
     selectedManifest : Digests \cup {Null},
     selectedBlob : BlobDigests \cup {Null}]

\* the reducer is given any state
ReducerInit ==
    /\ viewer \in ViewerStates
    /\ dispatched = [NoDispatch EXCEPT !.before = viewer]

(***************************************************************************)
(*                 VIEWS: useQuery and the query functions                 *)
(***************************************************************************)

\* the views DockerRepositoryViewer mounts
Views ==
    {"ListRepositories", "ListTags", "ListManifests", "DisplayManifest",
     "DisplayBlob"}

\* useQuery before its queryFn has settled: no data, isLoading
Mount(component) ==
    [component |-> component, status |-> "pending", failed |-> FALSE,
     data |-> [is |-> Undefined], shows |-> "Spinner"]

\* no view is mounted
NoView == [Mount(Null) EXCEPT !.shows = Null]

\* what the one request of fetchRepositories, fetchTags or fetchBlob can
\* come to: a transport failure, or a response of the gateway
ViewAnswers ==
    {[net |-> "error", status |-> 0]}
    \cup {[net |-> "ok", status |-> s] : s \in {200, 404, 500}}

\* the response as axios hands it over, body being the body served with a
\* 200
ViewResponse(a, body) ==
    [net |-> a.net, status |-> a.status,
     data |-> IF a.net = "ok" /\ a.status = 200 THEN body ELSE NoData]

\* the promise of a query function that returned value
Resolved(value) == [settled |-> "resolved", value |-> value]

\* the promise of a query function that threw
Rejected == [settled |-> "rejected", value |-> [is |-> Undefined]]

\* apiClient.ts fetchRepositories: `return response.data.repositories`, and
\* `return []` from the catch
fetchRepositoriesPromise(response) ==
    Resolved([is |-> "array",
              repositories |-> IF Resolves(response, FALSE)
                               THEN response.data.repositories
                               ELSE {}])

\* apiClient.ts fetchTags, as the promise the view is given
fetchTagsPromise(response) == Resolved(fetchTagsResult(response))

\* apiClient.ts fetchBlob: `return response.data`, and `return {}` from the
\* catch
fetchBlobPromise(response) ==
    Resolved([is |-> "object",
              keys |-> IF Resolves(response, FALSE)
                       THEN response.data.keys
                       ELSE {}])

\* apiClient.ts fetchManifests, as the promise the view is given once the
\* invocation has ended
fetchManifestsPromise ==
    IF ret = "thrown" THEN Rejected ELSE Resolved(manifests)

\* useQuery: the query succeeds with the value of a promise that resolved
\* and is in error when the promise rejected
useQuery(v, promise, failed) ==
    [v EXCEPT !.status = IF promise.settled = "resolved"
                         THEN "success" ELSE "error",
              !.data = promise.value,
              !.failed = failed]

\* what the view renders: the spinner while the query is loading, the
\* ErrorPanel when it is in error, and otherwise what the view makes of the
\* data (ListManifests reads manifestResponse.digest of the null it was
\* given, which throws)
Render(v) ==
    IF v.status = "pending" THEN "Spinner"
    ELSE IF v.status = "error" THEN "ErrorPanel"
    ELSE CASE v.component = "ListRepositories" ->
                IF v.data.repositories = {}
                THEN "table without rows" ELSE "table"
           [] v.component = "ListTags" ->
                IF v.data.tags = {} THEN "No tags found" ELSE "table"
           [] v.component = "ListManifests" ->
                IF v.data.is = "null" THEN "TypeError" ELSE "table"
           [] v.component = "DisplayManifest" ->
                IF v.data.is = "null"
                THEN "No manifests or config data found" ELSE "table"
           [] v.component = "DisplayBlob" ->
                IF v.data.keys = {} THEN "table without rows" ELSE "table"

\* the view is rendered again with the query as it is now
Rendered(v) == [v EXCEPT !.shows = Render(v)]

\* ListRepositories: the query of fetchRepositories settles
ListRepositoriesQuery ==
    /\ view.component = "ListRepositories"
    /\ view.status = "pending"
    /\ \E a \in ViewAnswers : \E served \in {{}, Repositories} :
          LET response == ViewResponse(a, [repositories |-> served])
          IN  view' = Rendered(useQuery(view,
                                        fetchRepositoriesPromise(response),
                                        ~Resolves(response, FALSE)))
    /\ UNCHANGED <<gwVars, clVars, conc, viewer, dispatched>>

\* ListTags: the query of fetchTags settles
ListTagsQuery ==
    /\ view.component = "ListTags"
    /\ view.status = "pending"
    /\ \E a \in ViewAnswers : \E served \in {{}, Tags} :
          LET response == ViewResponse(a, [tags |-> served])
          IN  view' = Rendered(useQuery(view, fetchTagsPromise(response),
                                        ~Resolves(response, FALSE)))
    /\ UNCHANGED <<gwVars, clVars, conc, viewer, dispatched>>

\* DisplayBlob: the query of fetchBlob settles
DisplayBlobQuery ==
    /\ view.component = "DisplayBlob"
    /\ view.status = "pending"
    /\ \E a \in ViewAnswers : \E served \in {{}, {"architecture", "os"}} :
          LET response == ViewResponse(a, [keys |-> served])
          IN  view' = Rendered(useQuery(view, fetchBlobPromise(response),
                                        ~Resolves(response, FALSE)))
    /\ UNCHANGED <<gwVars, clVars, conc, viewer, dispatched>>

\* a request of the invocation failed: at the transport, or with an error
\* status of the gateway
RequestFailed ==
    \E i \in DOMAIN log :
        /\ log[i].ev = "response"
        /\ \/ log[i].response.net = "error"
           \/ log[i].response.status >= 400

\* ListManifests, DisplayManifest: the query of fetchManifests settles
ManifestsQuery ==
    /\ view.component \in {"ListManifests", "DisplayManifest"}
    /\ view.status = "pending"
    /\ call.op = "fetchManifests"
    /\ pc = "done"
    /\ view' = Rendered(useQuery(view, fetchManifestsPromise,
                                 manifests = NoManifests /\ RequestFailed))
    /\ UNCHANGED <<gwVars, clVars, conc, viewer, dispatched>>

\* a view is mounted and its query function is called: ListManifests calls
\* fetchManifests without a media type, DisplayManifest with the media type
\* of the manifest selected
ViewInit ==
    \/ /\ ClientInit
       /\ call.op = "fetchManifests"
       /\ view = Mount(IF Truthy(call.mediaType)
                       THEN "DisplayManifest" ELSE "ListManifests")
    \/ /\ ClientIdle
       /\ view \in {Mount(c) : c \in {"ListRepositories", "ListTags",
                                       "DisplayBlob"}}

\* nothing but the client, or the gateway, is looked at
AppIdle ==
    /\ ConcIdle
    /\ ViewerInit
    /\ view = NoView

(***************************************************************************)
(* Specifications.                                                         *)
(***************************************************************************)

Init == ClientInit /\ GatewayIdle /\ AppIdle

Next ==
    \/ FetchManifestsEntry
    \/ FetchManifestsExplicitSettle
    \/ FetchManifestsProbe
    \/ FetchManifestsProbeSettle
    \/ FetchManifestsReturn
    \/ deleteTags
    \/ deleteTag
    \/ deleteTagSettle

\* one invocation of the registry client
Spec == Init /\ [][Next]_vars

\* one invocation of the registry client in which whatever can happen next
\* eventually happens: a request outstanding settles (a response, a
\* transport failure or the timeout of apiClient), a continuation runs
SpecFair == Init /\ [][Next]_vars /\ WF_vars(Next)

InitRegistry == RegistryInit /\ GatewayIdle /\ AppIdle

NextRegistry ==
    \/ FetchManifestsEntry
    \/ FetchManifestsProbe
    \/ FetchManifestsProbeSettle
    \/ deleteTags
    \/ deleteTag
    \/ deleteTagSettle
    \/ fetchTags
    \/ fetchTagsSettle
    \/ ExternalActor

\* one invocation of deleteTags against a registry with a state that another
\* client uses too, and the view's reading of the tags after it
SpecRegistry == InitRegistry /\ [][NextRegistry]_vars

InitPerformFetch == PerformFetchInit /\ ClientIdle /\ AppIdle

NextPerformFetch ==
    \/ performFetch
    \/ performFetchSettle
    \/ performFetchWake

\* one call of performFetch, the fetch with retries that no handler calls
SpecPerformFetch == InitPerformFetch /\ [][NextPerformFetch]_vars

\* one call of performFetch in which every await resumes: fetch settles or
\* fails, and the timer of wait fires
SpecPerformFetchFair ==
    InitPerformFetch /\ [][NextPerformFetch]_vars /\ WF_vars(NextPerformFetch)

InitGateway == GatewayInit /\ ClientIdle /\ AppIdle

NextGateway ==
    \/ GET
    \/ POST
    \/ PUT
    \/ DELETE
    \/ simpleFetchSettle

\* one request through the gateway
SpecGateway == InitGateway /\ [][NextGateway]_vars

InitConc ==
    ConcInit /\ GatewayIdle /\ ClientIdle /\ ViewerInit /\ view = NoView

NextConc ==
    \/ ConcFetch
    \/ ConcSettle
    \/ ConcWake

\* two requests in the gateway together, each served by simpleFetch or by
\* performFetch, their steps interleaved in any order
SpecConc == InitConc /\ [][NextConc]_vars

\* the same, every await resuming: each fetch settles or fails, each timer
\* fires
SpecConcFair == InitConc /\ [][NextConc]_vars /\ WF_vars(NextConc)

InitViewer ==
    ViewerInit /\ GatewayIdle /\ ClientIdle /\ ConcIdle /\ view = NoView

NextViewer ==
    \/ handleRepositoryClick
    \/ handleTagClick
    \/ handleManifestClick
    \/ handleBlobClick
    \/ Breadcrumb

\* DockerRepositoryViewer: the actions its views and its breadcrumb dispatch
SpecViewer == InitViewer /\ [][NextViewer]_vars

InitReducer ==
    ReducerInit /\ GatewayIdle /\ ClientIdle /\ ConcIdle /\ view = NoView

NextReducer == dispatchAny

\* viewerReducer applied to any action in any state
SpecReducer == InitReducer /\ [][NextReducer]_vars

InitView == ViewInit /\ GatewayIdle /\ ConcIdle /\ ViewerInit

NextView ==
    \/ FetchManifestsEntry
    \/ FetchManifestsExplicitSettle
    \/ FetchManifestsProbe
    \/ FetchManifestsProbeSettle
    \/ FetchManifestsReturn
    \/ ManifestsQuery
    \/ ListRepositoriesQuery
    \/ ListTagsQuery
    \/ DisplayBlobQuery

\* a view of DockerRepositoryViewer from its mounting to the settling of
\* its query
SpecView == InitView /\ [][NextView]_vars

(***************************************************************************)
(*                               CLAIMS                                    *)
(***************************************************************************)

\* ---- helpers of the claims ----

\* the positions of the log that hold an event of kind ev
EventsOf(ev) == {i \in DOMAIN log : log[i].ev = ev}

\* a response with status 200
Is200(response) == response.net = "ok" /\ response.status = 200

\* fetchManifests called by a view without a media type
ProbeCall == call.op = "fetchManifests" /\ ~Truthy(call.mediaType)

\* fetchManifests called by a view with a media type
ExplicitCall == call.op = "fetchManifests" /\ Truthy(call.mediaType)

\* the response the double gives to an Accept type for the call's reference
DoubleResponse(accept) ==
    AxiosResponse([accept |-> accept, ref |-> call.reference], double[accept])

\* C1: whatever headers the inbound request carries, in whatever letter
\* case, no request the gateway sends upstream (GET, POST, PUT or DELETE)
\* carries a Host or an Authorization header.
C1_NoHostNoAuthorizationUpstream ==
    \A i \in DOMAIN gwOut : \A h \in gwOut[i].headers :
        Lower(h.name) \notin {Lower(HostName), Lower(AuthorizationName)}

\* C1 witness: a request that came in with a Host header went upstream, and
\* went with another header of the inbound request.
C1_Witness ==
    /\ gwOut # <<>>
    /\ \E h \in gwIn.headers : Lower(h.name) = Lower(HostName)
    /\ \E h \in gwOut[1].headers : h.name = <<"x", "a">>

\* C2: the URL sent upstream is the registry base, then "/v2", then the
\* inbound path without its "/api/proxy" prefix; an empty remainder gives
\* "/v2/".
C2_PathTranslation ==
    \A i \in DOMAIN gwOut : \A rest \in SeqsUpTo(RestChars, MaxRest) :
        gwIn.pathname = ProxyPrefix \o rest =>
            gwOut[i].url =
                IF rest = <<>>
                THEN <<REGISTRY_URL, "/", "v", "2", "/">>
                ELSE <<REGISTRY_URL, "/", "v", "2">> \o rest

\* C2 witness: a request for the bare prefix went upstream to "/v2/".
C2_Witness ==
    /\ gwOut # <<>>
    /\ gwIn.pathname = ProxyPrefix
    /\ gwOut[1].url = <<REGISTRY_URL, "/", "v", "2", "/">>

\* C3: against a double that answers 200 to the Docker single-manifest
\* Accept type and to the OCI image-index Accept type, fetchManifests
\* without a media type returns the digest and the body of the
\* single-manifest response; at no point does it hold the index response.
C3_SingleManifestPreferred ==
    (/\ ProbeCall
     /\ Is200(DoubleResponse(DockerManifestV2))
     /\ Is200(DoubleResponse(OciImageIndex)))
    => /\ manifests.is = "object" =>
            /\ manifests.digest = double[DockerManifestV2].digest
            /\ manifests.data = [mediaType |-> DockerManifestV2,
                                 reference |-> call.reference]
       /\ pc = "done" => ret = "returned" /\ manifests.is = "object"

\* C3 witness: such a call returned, the double's two digests differing.
C3_Witness ==
    /\ ProbeCall
    /\ Is200(DoubleResponse(DockerManifestV2))
    /\ Is200(DoubleResponse(OciImageIndex))
    /\ double[DockerManifestV2].digest # double[OciImageIndex].digest
    /\ pc = "done"
    /\ manifests.digest = double[DockerManifestV2].digest

\* an invocation that probes: fetchManifests without a media type, called
\* by a view or, once per tag, by deleteTag
Probes == ProbeCall \/ call.op = "deleteTags"

\* the GET requests of the log made for tag t (0: the view's own call)
GetRequests(t) ==
    {i \in EventsOf("request") : log[i].method = "GET" /\ log[i].tag = t}

\* the position in the log of the response to the request at position i
\* (0: none yet)
ResponseTo(i) ==
    IF \E k \in EventsOf("response") : log[k].id = log[i].id
    THEN CHOOSE k \in EventsOf("response") : log[k].id = log[i].id
    ELSE 0

\* the request at position i of the log settled before anything else
\* happened: the next event is the response to it
SettledNext(i) ==
    /\ i < Len(log)
    /\ log[i + 1].ev = "response"
    /\ log[i + 1].id = log[i].id

\* the candidates in the order the specification gives: single manifest, index
ProbeOrder == <<DockerManifestV2, OciImageIndex>>

\* C4: probing, fetchManifests requests the single-manifest type first and
\* the image-index type second; a candidate is requested only when every
\* earlier candidate's request has settled, and settled without a 200; so no
\* request follows a 200.
C4_ProbeOrder ==
    Probes =>
        \A i \in EventsOf("request") : log[i].method = "GET" =>
            LET earlier == {j \in 1..(i - 1) :
                               /\ log[j].ev = "request"
                               /\ log[j].method = "GET"
                               /\ log[j].tag = log[i].tag}
            IN  /\ Cardinality(earlier) < Len(ProbeOrder)
                /\ log[i].accept = ProbeOrder[Cardinality(earlier) + 1]
                /\ \A j \in earlier :
                      SettledNext(j) /\ ~Is200(log[j + 1].response)

\* C4 witness: a probe ended on the 200 of its second candidate.
C4_Witness ==
    /\ ProbeCall
    /\ pc = "done"
    /\ Cardinality(GetRequests(0)) = 2
    /\ \E i \in GetRequests(0) :
          /\ log[i].accept = OciImageIndex
          /\ ResponseTo(i) # 0
          /\ Is200(log[ResponseTo(i)].response)

\* C5: when the double answers 404 to every candidate, fetchManifests
\* without a media type returns null, does not throw, and has requested
\* each candidate exactly once.
C5_NotFoundAfterAll404 ==
    (/\ ProbeCall
     /\ pc = "done"
     /\ \A k \in DOMAIN ProbeOrder :
           /\ double[ProbeOrder[k]].net = "ok"
           /\ double[ProbeOrder[k]].status = 404)
    => /\ ret = "returned"
       /\ manifests = NoManifests
       /\ Cardinality(EventsOf("request")) = Len(ProbeOrder)
       /\ \A k \in DOMAIN ProbeOrder :
             Cardinality({i \in GetRequests(0) :
                             log[i].accept = ProbeOrder[k]}) = 1

\* C5 witness: a probe against such a double has ended.
C5_Witness ==
    /\ ProbeCall
    /\ pc = "done"
    /\ \A k \in DOMAIN ProbeOrder :
          double[ProbeOrder[k]].net = "ok" /\ double[ProbeOrder[k]].status = 404
    /\ Cardinality(EventsOf("response")) = 2

\* C6: with a media type, fetchManifests makes exactly one request, whose
\* Accept is that media type; it returns null unless the answer is a 200
\* (another 2xx, a non-2xx status, a transport failure), and on a 200 the
\* digest it returns is the docker-content-digest header of the response.
C6_ExplicitMediaType ==
    ExplicitCall =>
        /\ Cardinality(EventsOf("request")) <= 1
        /\ \A i \in EventsOf("request") :
              /\ log[i].method = "GET"
              /\ log[i].accept = call.mediaType
              /\ log[i].ref = call.reference
        /\ pc = "done" =>
              /\ Cardinality(EventsOf("request")) = 1
              /\ ret = "returned"
              /\ IF Is200(DoubleResponse(call.mediaType))
                 THEN /\ manifests.is = "object"
                      /\ manifests.digest = double[call.mediaType].digest
                      /\ manifests.data = [mediaType |-> call.mediaType,
                                           reference |-> call.reference]
                 ELSE manifests = NoManifests

\* C6 witness: a call with a media type returned the digest of the header.
C6_Witness ==
    /\ ExplicitCall
    /\ pc = "done"
    /\ Is200(DoubleResponse(call.mediaType))
    /\ manifests.digest = "sha256:d2"

\* C7: probing, a transport failure or a status other than 200 and 404 on
\* the first candidate does not end the probe: the second candidate is
\* requested, and its 200 is what fetchManifests returns.
C7_FailureDoesNotAbortProbe ==
    (/\ ProbeCall
     /\ pc = "done"
     /\ \/ double[DockerManifestV2].net = "error"
        \/ double[DockerManifestV2].status \notin {200, 404})
    => /\ ret = "returned"
       /\ \E i \in GetRequests(0) : log[i].accept = OciImageIndex
       /\ Is200(DoubleResponse(OciImageIndex)) =>
             manifests = ManifestsOf(DoubleResponse(OciImageIndex))

\* C7 witness: the first candidate failed with a status 500, the second
\* answered 200 and was returned.
C7_Witness ==
    /\ ProbeCall
    /\ pc = "done"
    /\ double[DockerManifestV2].status = 500
    /\ Is200(DoubleResponse(OciImageIndex))
    /\ manifests.is = "object"

\* every candidate of the double fails at the transport
AllTransportFailures ==
    \A k \in DOMAIN ProbeOrder : double[ProbeOrder[k]].net = "error"

\* every candidate of the double answers 404
All404 ==
    \A k \in DOMAIN ProbeOrder :
        double[ProbeOrder[k]].net = "ok" /\ double[ProbeOrder[k]].status = 404

\* what the caller of fetchManifests gets
CallerSees == <<ret, manifests>>

\* C8 as claimed: the result of a probe whose candidates all failed at the
\* transport is distinct from the result of a probe whose candidates all
\* answered 404, which is the returned null.
C8_Original ==
    (ProbeCall /\ pc = "done" /\ AllTransportFailures)
    => CallerSees # <<"returned", NoManifests>>

\* C8 amended: the caller gets the same returned null when all candidates
\* answered 404 as when all failed at the transport; the two cases differ
\* in the console alone, where each transport failure is logged with
\* console.error and a 404 is not logged.
C8_SameNullDifferentConsole ==
    (ProbeCall /\ pc = "done")
    => /\ All404 =>
             /\ CallerSees = <<"returned", NoManifests>>
             /\ EventsOf("console.error") = {}
       /\ AllTransportFailures =>
             /\ CallerSees = <<"returned", NoManifests>>
             /\ Cardinality(EventsOf("console.error")) = Len(ProbeOrder)

\* C8 witness: a probe whose candidates all failed at the transport returned
\* null.
C8_Witness ==
    /\ ProbeCall
    /\ pc = "done"
    /\ AllTransportFailures
    /\ manifests = NoManifests
    /\ Cardinality(EventsOf("console.error")) = 2

\* the requests of the log made for tag t with method m
RequestsOf(t, m) ==
    {i \in EventsOf("request") : log[i].tag = t /\ log[i].method = m}

\* the positions of the responses that resolved tag t: a 200 to a GET made
\* for t that carries a digest
Resolutions(t) ==
    {k \in EventsOf("response") :
        /\ log[k].tag = t
        /\ log[k].method = "GET"
        /\ Is200(log[k].response)
        /\ Truthy(log[k].response.digest)}

\* the response to some request made for tag t reports a failure
FailedOn(t) ==
    \E k \in EventsOf("response") :
        log[k].tag = t /\ ~Resolves(log[k].response, log[k].method = "GET")

\* C9: when deleteTags has ended it has returned, and for every tag of the
\* input, whatever failed before it, the tag's resolution was attempted and,
\* if a response gave a digest, a DELETE of that digest was issued after it.
C9_EveryTagProcessed ==
    (call.op = "deleteTags" /\ pc = "done")
    => /\ ret = "returned"
       /\ \A t \in DOMAIN call.tags :
             /\ \E i \in RequestsOf(t, "GET") : log[i].ref = call.tags[t]
             /\ \A k \in Resolutions(t) :
                   \E i \in RequestsOf(t, "DELETE") :
                       i > k /\ log[i].ref = log[k].response.digest
             /\ Resolutions(t) = {} => RequestsOf(t, "DELETE") = {}

\* C9 witness: deleteTags ended; the first tag's resolution failed at the
\* transport and the second tag's manifest was deleted.
C9_Witness ==
    /\ call.op = "deleteTags"
    /\ pc = "done"
    /\ Len(call.tags) = 2
    /\ FailedOn(1)
    /\ Resolutions(1) = {}
    /\ RequestsOf(2, "DELETE") # {}

\* C10: deleteTags works through the tags in the order given, one request
\* at a time: at most one request is outstanding, and it is the last event
\* of the log; every other request was settled before anything else
\* happened; the events of a tag follow those of the tag before it, starting
\* with the first tag; and the tag resolved at position t is the t-th of the
\* input.
C10_SequentialInOrder ==
    call.op = "deleteTags" =>
        /\ Cardinality(inflight) <= 1
        /\ \A i \in DOMAIN log :
              /\ log[i].tag \in DOMAIN call.tags
              /\ i = 1 => log[i].tag = 1
              /\ i > 1 => log[i].tag \in {log[i - 1].tag, log[i - 1].tag + 1}
              /\ log[i].ev = "request" =>
                    /\ log[i].method = "GET" =>
                          log[i].ref = call.tags[log[i].tag]
                    /\ i = Len(log) \/ SettledNext(i)
                    /\ i = Len(log) <=> \E r \in inflight : r.id = log[i].id

\* C10 witness: the DELETE of the first tag has settled and the request for
\* the second tag is outstanding.
C10_Witness ==
    /\ call.op = "deleteTags"
    /\ \E i \in RequestsOf(1, "DELETE") : ResponseTo(i) # 0
    /\ \E r \in inflight : r.method = "GET" /\ r.ref = call.tags[2]

\* the responses of the log to a DELETE made for tag t that report a failure
FailedDeletes(t) ==
    {k \in EventsOf("response") :
        /\ log[k].tag = t
        /\ log[k].method = "DELETE"
        /\ ~Resolves(log[k].response, FALSE)}

\* C11: within one invocation of deleteTags at most one DELETE is issued
\* for each tag of the input, so that no request follows a DELETE that
\* failed for the same tag, and there are never more DELETEs than tags.
C11_AtMostOneDeletePerTag ==
    call.op = "deleteTags" =>
        /\ \A t \in DOMAIN call.tags :
              /\ Cardinality(RequestsOf(t, "DELETE")) <= 1
              /\ \A k \in FailedDeletes(t) :
                    \A i \in DOMAIN log :
                        (i > k /\ log[i].ev = "request") => log[i].tag > t
        /\ Cardinality({i \in EventsOf("request") : log[i].method = "DELETE"})
              <= Len(call.tags)

\* C11 witness: deleteTags ended after the DELETE of its first tag failed;
\* that DELETE is the only one made for the tag.
C11_Witness ==
    /\ call.op = "deleteTags"
    /\ pc = "done"
    /\ FailedDeletes(1) # {}
    /\ Cardinality(RequestsOf(1, "DELETE")) = 1

\* C12: deleteTags, and with it every deleteTag it calls, never throws or
\* rejects: the invocation is pending until it ends and has then returned,
\* whatever failed on the way; the caller is given nothing that tells a
\* failure from a success.
C12_NeverThrows ==
    call.op = "deleteTags" =>
        /\ ret \in {"pending", "returned"}
        /\ ret = "returned" <=> pc = "done"

\* C12 witness: deleteTags returned although the resolution of its first tag
\* found no manifest and the DELETE of its second tag failed.
C12_Witness ==
    /\ call.op = "deleteTags"
    /\ ret = "returned"
    /\ Len(call.tags) = 2
    /\ RequestsOf(1, "DELETE") = {}
    /\ FailedDeletes(2) # {}

\* C14: every DELETE names a digest, never a tag: the digest that the
\* response settled just before it, a 200 to the GET of the same tag by its
\* name, carried; a tag whose resolution gave no such response gets no
\* DELETE.
C14_DeleteTargetsResolvedDigest ==
    call.op = "deleteTags" =>
        \A i \in EventsOf("request") :
            log[i].method = "DELETE" =>
                /\ log[i].ref \in Digests
                /\ log[i].ref \notin Tags
                /\ i > 1
                /\ i - 1 \in Resolutions(log[i].tag)
                /\ log[i - 1].ref = call.tags[log[i].tag]
                /\ log[i].ref = log[i - 1].response.digest

\* C14 witness: the first tag was resolved by the second candidate and the
\* DELETE of the digest it carried is outstanding, while a 200 without a
\* digest is in the log of an earlier request.
C14_Witness ==
    /\ call.op = "deleteTags"
    /\ pc = "dt_delete_wait"
    /\ ti = 2
    /\ RequestsOf(1, "DELETE") = {}
    /\ \E k \in EventsOf("response") :
          /\ log[k].tag = 1
          /\ Is200(log[k].response)
          /\ ~Truthy(log[k].response.digest)
    /\ \E r \in inflight : r.method = "DELETE" /\ r.ref \in Digests

\* the console messages of level `level` that deleteTag wrote for tag t
ConsoleOf(t, level) ==
    {i \in EventsOf(level) : log[i].tag = t /\ log[i].ref \in
                                 {"deleted", "delete failed"}}

\* the terminal states of a tag
Deleted(t) == ConsoleOf(t, "console.log") # {}
DeleteFailed(t) ==
    ConsoleOf(t, "console.error") # {} /\ RequestsOf(t, "DELETE") # {}
ResolveFailed(t) ==
    ConsoleOf(t, "console.error") # {} /\ RequestsOf(t, "DELETE") = {}

\* the state of tag t, as the log lg shows it
TagStateIn(lg, t) ==
    LET mine == {i \in DOMAIN lg : lg[i].tag = t}
        delete == \E i \in mine : lg[i].ev = "request"
                                    /\ lg[i].method = "DELETE"
        failed == \E i \in mine : lg[i].ev = "console.error"
                                    /\ lg[i].ref = "delete failed"
    IN  IF \E i \in mine : lg[i].ev = "console.log" /\ lg[i].ref = "deleted"
        THEN "Deleted"
        ELSE IF failed /\ delete THEN "DeleteFailed"
        ELSE IF failed THEN "ResolveFailed"
        ELSE IF delete THEN "Deleting"
        ELSE IF \E i \in mine : /\ lg[i].ev = "response"
                                  /\ lg[i].method = "GET"
                                  /\ Is200(lg[i].response)
                                  /\ Truthy(lg[i].response.digest)
        THEN "Resolved"
        ELSE IF mine # {} THEN "Resolving"
        ELSE "Pending"

TagState(t) == TagStateIn(log, t)

\* the steps of the state machine of a tag
TagSteps ==
    {<<"Pending", "Resolving">>, <<"Resolving", "Resolved">>,
     <<"Resolving", "ResolveFailed">>, <<"Resolved", "Deleting">>,
     <<"Deleting", "Deleted">>, <<"Deleting", "DeleteFailed">>}

\* every tag of the input is in exactly one terminal state
AllTerminal ==
    \A t \in DOMAIN call.tags :
        Cardinality({x \in {"Deleted", "DeleteFailed", "ResolveFailed"} :
            \/ x = "Deleted" /\ Deleted(t)
            \/ x = "DeleteFailed" /\ DeleteFailed(t)
            \/ x = "ResolveFailed" /\ ResolveFailed(t)}) = 1

\* C13: when every request eventually settles, an invocation of deleteTags
\* eventually returns; when it has ended every tag of the input is in
\* exactly one of Deleted, DeleteFailed and ResolveFailed; and a tag changes
\* state only by a step of Pending -> Resolving -> Resolved -> Deleting ->
\* Deleted | DeleteFailed, or Resolving -> ResolveFailed.
C13_TerminatesAllTerminal ==
    /\ (call.op = "deleteTags") => <>(pc = "done" /\ ret = "returned")
    /\ []((call.op = "deleteTags" /\ pc = "done") => AllTerminal)
    /\ [][call.op = "deleteTags" =>
            \A t \in DOMAIN call.tags :
                LET before == TagStateIn(log, t)
                    after == TagStateIn(log', t)
                IN  before = after \/ <<before, after>> \in TagSteps]_vars

\* C13 witness: deleteTags ended with its first tag Deleted and its second
\* tag ResolveFailed.
C13_Witness ==
    /\ call.op = "deleteTags"
    /\ pc = "done"
    /\ Len(call.tags) = 2
    /\ TagState(1) = "Deleted"
    /\ TagState(2) = "ResolveFailed"

\* the responses of the log to a DELETE made for tag t
DeleteResponses(t) ==
    {k \in EventsOf("response") : log[k].tag = t /\ log[k].method = "DELETE"}

\* what another client did between the resolution r of a tag and the
\* response k to the DELETE made for it
ExternalBetween(r, k) ==
    {j \in EventsOf("external") : r < j /\ j < k}

\* between r and k another client repointed tag t of the input, or removed
\* it by deleting the manifest it was resolved to at r
RepointedOrRemoved(t, r, k) ==
    \E j \in ExternalBetween(r, k) :
        \/ log[j].method = "PUT" /\ log[j].ref = call.tags[t]
        \/ log[j].method = "DELETE" /\ log[j].ref = log[r].response.digest

\* the largest element of a non-empty set of numbers
MaxOf(S) == CHOOSE x \in S : \A y \in S : y <= x

\* the manifest resolved at r is in the registry at k: of what another
\* client did to it since r, the last was a push
ManifestThere(r, k) ==
    LET js == {j \in ExternalBetween(r, k) :
                  log[j].response.digest = log[r].response.digest}
    IN  js = {} \/ log[MaxOf(js)].method = "PUT"

\* the DELETE settled at k succeeded and deleteTag logged the success
LoggedDeleted(k) ==
    /\ Resolves(log[k].response, FALSE)
    /\ k < Len(log)
    /\ log[k + 1].ev = "console.log"
    /\ log[k + 1].ref = "deleted"

\* the DELETE settled at k failed and deleteTag logged the failure
LoggedDeleteFailed(k) ==
    /\ ~Resolves(log[k].response, FALSE)
    /\ k < Len(log)
    /\ log[k + 1].ev = "console.error"
    /\ log[k + 1].ref = "delete failed"

Undisturbed == registry.on /\ registry.ext = 0

\* resolution and DELETE succeeded for tag t of the input
ResolvedAndDeleted(t) ==
    /\ Resolutions(t) # {}
    /\ \E k \in DeleteResponses(t) : Resolves(log[k].response, FALSE)

\* C16: against a registry that no other client touches, a tag of the input
\* for which resolution and DELETE succeeded is not among the tags that
\* fetchTags returns after deleteTags has returned.
C16_DeletedTagNotListed ==
    (Undisturbed /\ pc = "refetched") =>
        /\ fetched.is = "array"
        /\ \A t \in DOMAIN call.tags :
              ResolvedAndDeleted(t) => call.tags[t] \notin fetched.tags

\* C16 witness: the first tag of the input was deleted, and fetchTags then
\* returned a list that names another tag and not that one.
C16_Witness ==
    /\ Undisturbed
    /\ pc = "refetched"
    /\ ResolvedAndDeleted(1)
    /\ fetched.tags # {}
    /\ call.tags[1] \notin fetched.tags

TransportFailure(i) == gwUp[i].net = "error"

\* the upstream answered call i of fetch with status st
Answered(i, st) == gwUp[i].net = "ok" /\ gwUp[i].status = st

C19_Retry304ThenOk ==
    (Len(gwUp) >= 3 /\ Answered(1, 304) /\ Answered(2, 304)
        /\ Answered(3, 200))
    => /\ gwPc = "responded"
       /\ Len(gwUp) = 3
       /\ Len(gwOut) = 3
       /\ \A i \in DOMAIN gwOut : gwOut[i] = gwOut[1]
       /\ gwRes = handleFetchResponse(gwUp[3])
       /\ gwRes.status = 200
       /\ gwWaits = <<RetryWaitMs, RetryWaitMs>>

\* C19 witness: performFetch has returned the 200 that followed two 304s.
C19_Witness ==
    /\ gwPc = "responded"
    /\ Len(gwUp) = 3
    /\ Answered(1, 304)
    /\ Answered(2, 304)
    /\ Answered(3, 200)
    /\ gwRes.status = 200
    /\ gwRes.body = "upstream-body"

\* the answer of performFetch to a 304 on every attempt
CacheMiss == NextResponseJson("Cache miss after max retries.", 404)

\* C20: when the upstream answers 304 to the first call and to each of the
\* three retries, performFetch returns the failure 'Cache miss after max
\* retries.'; it never hands on a 304, whatever the upstream does; and that
\* failure is not the 500 'Internal server error' returned when every
\* attempt failed at the transport.
C20_CacheMissAfter304s ==
    /\ gwRes.status # 304
    /\ CacheMiss # handleErrorResponse
    /\ (Len(gwUp) = maxRetries + 1 /\ \A i \in DOMAIN gwUp : Answered(i, 304))
       => /\ gwPc = "responded"
          /\ Len(gwOut) = maxRetries + 1
          /\ gwRes = CacheMiss
    /\ (Len(gwUp) = maxRetries + 1
           /\ \A i \in DOMAIN gwUp : TransportFailure(i))
       => /\ gwPc = "responded"
          /\ gwRes = handleErrorResponse

\* C20 witness: performFetch has returned the cache miss after four 304s.
C20_Witness ==
    /\ gwPc = "responded"
    /\ Len(gwUp) = maxRetries + 1
    /\ \A i \in DOMAIN gwUp : Answered(i, 304)
    /\ gwRes = CacheMiss
    /\ gwWaits = <<RetryWaitMs, RetryWaitMs, RetryWaitMs>>

\* the methods that change the registry
MutatingMethods == {"POST", "PUT", "DELETE"}

\* C21: a POST, PUT or DELETE entering the gateway is sent upstream at most
\* once, and exactly once when it has been answered, whatever the upstream
\* did with it (a 304 included): no second call of fetch follows an outcome,
\* and nothing is waited for.
C21_MutatingSentOnce ==
    gwIn.method \in MutatingMethods =>
        /\ Len(gwOut) <= 1
        /\ \A i \in DOMAIN gwOut : gwOut[i].method = gwIn.method
        /\ gwUp # <<>> => (gwPc = "responded" /\ Len(gwOut) = 1)
        /\ gwWaits = <<>>

\* C21 witness: a PUT answered 304 by the upstream has been answered by the
\* gateway after its one call of fetch.
C21_Witness ==
    /\ gwIn.method = "PUT"
    /\ gwPc = "responded"
    /\ Len(gwOut) = 1
    /\ Answered(1, 304)

\* the upstream answered the one call of a handler with a status that is
\* not a 2xx
UpstreamNon2xx ==
    /\ gwIn.method \in Methods
    /\ gwPc = "responded"
    /\ gwUp # <<>>
    /\ gwUp[1].net = "ok"
    /\ ~ResponseOk(gwUp[1])

\* C22 as claimed: when the upstream answers with a status s that is not a
\* 2xx, the answer of the gateway has the status s and the status message
\* the upstream gave (when it gave one), and fetch was called once.
C22_Non2xxForwarded ==
    UpstreamNon2xx =>
        /\ gwRes.status = gwUp[1].status
        /\ gwUp[1].statusText # "" => gwRes.error = gwUp[1].statusText
        /\ Len(gwOut) = 1

\* C22 failing state: the upstream answered 304 'reason' and the gateway
\* has answered 500 'Internal server error', handleFetchResponse having
\* thrown while it built the 304.
C22_Witness ==
    /\ UpstreamNon2xx
    /\ Answered(1, 304)
    /\ gwUp[1].statusText = "reason"
    /\ NextResponseJson(gwUp[1].statusText, gwUp[1].status) = ThrownTypeError
    /\ gwRes = handleErrorResponse

\* the bytes fetch puts on the wire for the body it was given: none when the
\* body is undefined
SentBytes(body) == IF body = Undefined THEN "" ELSE body

\* C23 as claimed: the body a POST or a PUT sends upstream is the body of
\* the inbound request, and a GET or a DELETE is sent without a body.
C23_BodyForwarded ==
    \A i \in DOMAIN gwOut :
        /\ gwIn.method \in {"POST", "PUT"}
              => SentBytes(gwOut[i].body) = gwIn.body
        /\ gwIn.method \in {"GET", "DELETE"} => gwOut[i].body = Undefined

\* C23 failing state: a POST that came with the body 'payload' has been
\* sent upstream without a body.
C23_Witness ==
    /\ gwIn.method = "POST"
    /\ gwIn.body = "payload"
    /\ Len(gwOut) = 1
    /\ gwOut[1].method = "POST"
    /\ gwOut[1].body = Undefined

\* a handler has answered what the upstream answered to its one call
UpstreamAnswered ==
    /\ gwIn.method \in Methods
    /\ gwPc = "responded"
    /\ gwUp # <<>>
    /\ gwUp[1].net = "ok"

UsedRetry(i) == TransportFailure(i) \/ Answered(i, 304)

\* what holds of performFetch at every moment, for C27
PerformFetchBudget ==
    /\ Len(gwOut) <= maxRetries + 1
    /\ Len(gwUp) = maxRetries + 1 => gwPc = "responded"
    /\ gwPc # "responded" =>
          /\ retryCount = Len(gwUp)
          /\ \A i \in DOMAIN gwUp : UsedRetry(i)
    /\ (Len(gwUp) = maxRetries + 1
           /\ \A i \in 1..maxRetries : TransportFailure(i)
           /\ Answered(maxRetries + 1, 304))
       => /\ Len(gwOut) = maxRetries + 1
          /\ gwRes = CacheMiss

\* C27: whatever the upstream does, performFetch calls fetch at most four
\* times and then returns; failures of the transport and 304s are counted
\* by the one retryCount, so that three failures followed by a 304 make the
\* fourth call return 'Cache miss after max retries.'.
C27_AtMostFourAttempts ==
    /\ [] PerformFetchBudget
    /\ <> (gwPc = "responded" /\ Len(gwUp) <= maxRetries + 1)

\* C27 witness: performFetch has returned the cache miss for a 304 that
\* followed three failures of the transport.
C27_Witness ==
    /\ gwPc = "responded"
    /\ Len(gwOut) = maxRetries + 1
    /\ \A i \in 1..maxRetries : TransportFailure(i)
    /\ Answered(maxRetries + 1, 304)
    /\ gwRes = CacheMiss
    /\ gwWaits = <<0, 0, 0>>

\* the return of performFetch after its loop
UnexpectedError == NextResponseJson("Unexpected error during fetch.", 500)

\* C28: performFetch never returns 'Unexpected error during fetch.': every
\* time the condition of the loop is evaluated retryCount is at most
\* maxRetries, the loop having returned from its body otherwise.
C28_FallbackUnreachable ==
    /\ gwRes # UnexpectedError
    /\ gwPc = "pf_loop" => retryCount <= maxRetries
    /\ retryCount > maxRetries => (gwPc = "responded" /\ gwRes = CacheMiss)
    /\ UnexpectedError \notin {CacheMiss, handleErrorResponse, NoNextResponse}

\* C28 witness: retryCount has passed maxRetries, on the fourth 304 or
\* failure, and performFetch has returned from the body of the loop.
C28_Witness ==
    /\ retryCount = maxRetries + 1
    /\ gwPc = "responded"
    /\ Len(gwUp) = maxRetries + 1
    /\ TransportFailure(1)
    /\ Answered(maxRetries + 1, 304)
    /\ gwRes # UnexpectedError

\* performFetch run alone from its pass i with retryCount rc on the
\* outcomes outs of the upstream: the calls of fetch it makes and what it
\* returns, if it returns
RECURSIVE PerformFetchAlone(_, _, _)
PerformFetchAlone(outs, i, rc) ==
    IF ~(rc <= maxRetries)
    THEN [attempts |-> i - 1, responses |-> <<UnexpectedError>>]
    ELSE IF i > Len(outs)
    THEN [attempts |-> i, responses |-> <<>>]
    ELSE LET decision == PerformFetchTry(outs[i], rc)
         IN  IF decision \in {"retry", "wait"}
             THEN PerformFetchAlone(outs, i + 1, rc + 1)
             ELSE [attempts |-> i,
                   responses |-> <<PerformFetchReturn(decision, outs[i])>>]

\* the function fn run alone on the outcomes outs
Alone(fn, outs) ==
    IF fn = "simpleFetch"
    THEN [attempts |-> 1,
          responses |-> IF outs = <<>> THEN <<>>
                        ELSE <<simpleFetchResult(outs[1])>>]
    ELSE PerformFetchAlone(outs, 1, 0)

\* what holds of the requests in flight together at every moment: each has
\* at most one response, has it when and only when it has returned, and
\* has called fetch as often, and returned what, the function that serves
\* it would have if run alone on the outcomes of its own calls
EachRequestAlone ==
    \A r \in Reqs :
        LET c == conc[r]
            alone == Alone(c.fn, c.up)
        IN  /\ Len(c.responses) <= 1
            /\ (c.pc = "responded") = (Len(c.responses) = 1)
            /\ c.responses = alone.responses
            /\ c.attempts \in {Len(c.up), Len(c.up) + 1}
            /\ c.attempts <= alone.attempts
            /\ c.pc = "responded" => c.attempts = alone.attempts

\* C26: however the steps of two requests in the gateway interleave, each
\* request gets exactly one response, and the calls of fetch made for it
\* and the response it gets are those of its function run alone on the
\* outcomes of its own calls: nothing one request does or suffers reaches
\* the other.
C26_RequestsIndependent ==
    /\ [] EachRequestAlone
    /\ <> (\A r \in Reqs : conc[r].pc = "responded"
                           /\ Len(conc[r].responses) = 1)

\* C26 witness: of two calls of performFetch in flight together one has
\* used up its retries on failures of the transport and returned the 500,
\* and the other has returned the 200 of its first call of fetch.
C26_Witness ==
    /\ conc["r1"].fn = "performFetch"
    /\ conc["r2"].fn = "performFetch"
    /\ conc["r1"].pc = "responded"
    /\ conc["r2"].pc = "responded"
    /\ Len(conc["r1"].up) = maxRetries + 1
    /\ \A i \in DOMAIN conc["r1"].up : conc["r1"].up[i].net = "error"
    /\ conc["r1"].responses = <<handleErrorResponse>>
    /\ conc["r2"].attempts = 1
    /\ conc["r2"].responses[1].status = 200

\* C25 as claimed: when the logical fetch of a view has failed, at the
\* transport or with an error status of the gateway, the query of the view
\* is in error and the view shows the ErrorPanel.
C25_FailureShowsErrorPanel ==
    (view.component \in Views /\ view.status # "pending" /\ view.failed)
    => /\ view.status = "error"
       /\ view.shows = "ErrorPanel"

\* C25 failing state: the request of fetchTags has failed, the query of
\* ListTags has succeeded with the empty array fetchTags returned from its
\* catch, and the view shows 'No tags found'.
C25_Witness ==
    /\ view.component = "ListTags"
    /\ view.failed
    /\ view.status = "success"
    /\ view.data = [is |-> "array", tags |-> {}]
    /\ view.shows = "No tags found"

\* C29: in every state DockerRepositoryViewer reaches from initialState by
\* the actions its views and its breadcrumb dispatch, a tag is selected only
\* with a repository, and a manifest or a blob only with a tag.
C29_SelectionHierarchical ==
    /\ viewer.selectedTag # Null => viewer.selectedRepo # Null
    /\ (viewer.selectedManifest # Null \/ viewer.selectedBlob # Null)
          => viewer.selectedTag # Null

\* C29 witness: with a manifest and a blob selected, the repository item of
\* the breadcrumb was clicked (RESET_TAG), and tag, manifest and blob are
\* all deselected while the repository stays.
C29_Witness ==
    /\ dispatched.action.type = "RESET_TAG"
    /\ dispatched.before.selectedManifest # Null
    /\ dispatched.before.selectedBlob # Null
    /\ viewer.selectedRepo # Null
    /\ viewer.selectedTag = Null
    /\ viewer.selectedManifest = Null
    /\ viewer.selectedBlob = Null

\* the levels of the selection, the shallowest first
Levels ==
    <<"selectedRepo", "selectedTag", "selectedManifest", "selectedBlob">>

\* the level an action is about
LevelOf(type) ==
    CASE type \in {"SELECT_REPOSITORY", "RESET_REPOSITORY"} -> 1
      [] type \in {"SELECT_TAG", "RESET_TAG"} -> 2
      [] type \in {"SELECT_MANIFEST", "RESET_MANIFEST"} -> 3
      [] type \in {"SELECT_BLOB", "RESET_BLOB"} -> 4

SelectTypes ==
    {"SELECT_REPOSITORY", "SELECT_TAG", "SELECT_MANIFEST", "SELECT_BLOB"}

ResetTypes == {"RESET_TAG", "RESET_MANIFEST", "RESET_BLOB"}

\* what C30 says of the state after that action makes of the state before
FrameEffect(before, action, after) ==
    CASE action.type = "RESET_REPOSITORY" -> after = initialState
      [] action.type \in SelectTypes \cup ResetTypes ->
           LET x == LevelOf(action.type)
           IN  /\ after[Levels[x]] = IF action.type \in SelectTypes
                                     THEN action.payload ELSE Null
               /\ \A j \in DOMAIN Levels :
                     /\ j > x => after[Levels[j]] = Null
                     /\ j < x => after[Levels[j]] = before[Levels[j]]
      [] OTHER -> after = before

\* C30: viewerReducer makes of every state and every action what the claim
\* says: SELECT_x sets level x to the payload, RESET_x (x not the
\* repository) sets it to null, both set the deeper levels to null and
\* leave the shallower ones; RESET_REPOSITORY gives initialState; an action
\* of an unknown type gives the state back.
C30_ReducerFrame ==
    /\ \A action \in ViewerActions :
          FrameEffect(viewer, action, viewerReducer(viewer, action))
    /\ dispatched.action.type # Null
          => FrameEffect(dispatched.before, dispatched.action, viewer)

\* C30 witness: SELECT_TAG was dispatched in a state with a repository, a
\* manifest and a blob selected; the tag is the payload, the repository is
\* the one of before, manifest and blob are null.
C30_Witness ==
    /\ dispatched.action.type = "SELECT_TAG"
    /\ dispatched.before.selectedRepo # Null
    /\ dispatched.before.selectedManifest # Null
    /\ dispatched.before.selectedBlob # Null
    /\ viewer.selectedTag = dispatched.action.payload
    /\ viewer.selectedRepo = dispatched.before.selectedRepo
    /\ viewer.selectedManifest = Null
    /\ viewer.selectedBlob = Null

=============================================================================
